---- MODULE Spec2Model ----
(***************************************************************************)
(* Verification model of the rs-lang compiler middle/back end:             *)
(*   - BlockController (compiler_block_spilt.py): basic block split,       *)
(*     call-order resolution, CFG construction, live variable analysis;    *)
(*   - SemanticChecker (compiler_semantic_checker.py): the backpatching    *)
(*     translation of control flow into quadruples;                        *)
(*   - MemController / AimCodeGenerator (compiler_aimcodegenerator.py):    *)
(*     register allocation and target code emission.                       *)
(* Python lists are 0-based; sequences here are 1-based.  Quadruple        *)
(* indices keep their program values; block numbers and in-block           *)
(* positions are the Python values plus one.                               *)
(***************************************************************************)
EXTENDS Integers, Sequences, FiniteSets, TLC

VARIABLES
    \* ---- BlockController ----
    quads,          \* self.quads: sequence of [idx, q]
    func_entries,   \* self.func_entries: function name -> entry quadruple index
    func_vars,      \* self.func_vars: function name -> set of variable names
    func_blocks,    \* self.func_blocks: function name -> sequence of blocks
    call_graph,     \* call_graph of _split_all_functions: callee -> set of callers
    order,          \* order of _split_all_functions (key order of func_blocks)
    visited,        \* visited of _split_all_functions
    dfs_stack,      \* activation records of visit(f): [f, todo]
    func_cfgs,      \* self.func_cfgs: function name -> (block -> set of successors)
    in_sets,        \* in_sets of _live_variable_analysis, per function
    out_sets,       \* out_sets of _live_variable_analysis, per function
    live_k,         \* position in `order` of the function being analysed
    sweeps,         \* number of passes of the while loop made for that function
    bpc,            \* position of BlockController._initialize_analysis
    \* ---- SemanticChecker ----
    ir,             \* code_generator.quads: quadruple i is ir[i + 1]
    sem_stack,      \* parse stack of the current function body: nodes with attributes
    start_list,     \* next_list of the JFuncStart node
    loop_stack,     \* self.loop_stack
    loop_res,       \* self.loop_res: the 'type' of each entry
    errors,         \* self.errors is not empty
    current_function, \* self.current_function: [name, quad_index, ret] or NoFunction
    functions,      \* function symbols of the global scope: name -> quad_index
    temp_count,     \* temporaries handed out by new_temp
    spc,            \* position of the translation: "start", "run", "done"
    src,            \* tokens of the source text not yet read by the parser
    \* ---- MemController / AimCodeGenerator ----
    gen_prog,       \* block_controller.func_blocks in its order: [name, scope, quads]
    gen_fn,         \* number of the function being emitted, 0 before the first
    var_use_pos,    \* mem_controller.var_use_pos in key order: [var, uses]
    valregs,        \* mem_controller.valregs: the register pool
    rvalues,        \* mem_controller.rvalues of the function, in insertion order
    usedregs,       \* mem_controller.usedregs
    frames,         \* function_stack.frames
    code,           \* the instructions quad_to_code returned last
    reg_file,       \* contents of the pool registers when the code so far has run
    frame_mem,      \* contents of the frame slots, by offset
    ideal,          \* value of each assigned name in the quadruple program
    written,        \* name and value written by the last quadruple's instructions
    gpc,            \* quadruples of the function emitted so far
    apc,            \* steps of quad_to_code made for that quadruple
    last_alloc,     \* the last call of alloc_reg: its request and what it did
    asm_out,        \* self.code behind its header: the labels and the lines appended
    raised          \* the exception that ended generate_code, if any

blockVars == <<quads, func_entries, func_vars, func_blocks, call_graph, order,
               visited, dfs_stack, func_cfgs, in_sets, out_sets, live_k, sweeps, bpc>>

semVars == <<ir, sem_stack, start_list, loop_stack, loop_res, errors,
             current_function, functions, temp_count, spc, src>>

genVars == <<gen_prog, gen_fn, var_use_pos, valregs, rvalues, usedregs, frames, code, reg_file,
             frame_mem, ideal, written, gpc, apc, last_alloc>>

outVars == <<asm_out, raised>>

-----------------------------------------------------------------------------
(* Operands of a quadruple: a name (str), an integer (a constant or a jump   *)
(* target), or None.                                                         *)
NoneV == [k |-> "none", s |-> "", n |-> 0]
StrV(x) == [k |-> "str", s |-> x, n |-> 0]
IntV(i) == [k |-> "int", s |-> "", n |-> i]

IsStr(o) == o.k = "str"
IsInt(o) == o.k = "int"

Quadruple(op, arg1, arg2, result) ==
    [op |-> op, arg1 |-> arg1, arg2 |-> arg2, result |-> result]

WithIdx(i, q) == [idx |-> i, q |-> q]

RetReg == "$ret_reg"

-----------------------------------------------------------------------------
(* Generic helpers                                                           *)
Min(S) == CHOOSE x \in S : \A y \in S : x <= y
Max(S) == CHOOSE x \in S : \A y \in S : x >= y

RECURSIVE SortedSeq(_)
SortedSeq(S) == IF S = {} THEN <<>> ELSE <<Min(S)>> \o SortedSeq(S \ {Min(S)})

RECURSIVE Flatten(_)
Flatten(ss) == IF ss = <<>> THEN <<>> ELSE Head(ss) \o Flatten(Tail(ss))

Range(s) == {s[i] : i \in 1..Len(s)}

-----------------------------------------------------------------------------
(* BlockController._block_split                                              *)

IsJumpOp(q) == q.op \in {"j", "jnz"}

\* line 134: a jump whose result is not None
ResolvedJumpAt(qs, p) == IsJumpOp(qs[p].q) /\ qs[p].q.result # NoneV

\* lines 136-137: positions of the jump targets that lie in the slice
TargetStarts(qs) ==
    {p \in 1..Len(qs) : \E c \in 1..Len(qs) :
        /\ ResolvedJumpAt(qs, c)
        /\ IsInt(qs[c].q.result)
        /\ qs[p].idx = qs[c].q.result.n}

\* a variant that starts the block at the jump itself instead of behind it
AfterJumpStartsAtJump(qs) ==
    {c \in 1..Len(qs) : ResolvedJumpAt(qs, c) /\ c + 1 <= Len(qs)}

\* lines 139-140: positions that follow a jump
AfterJumpStarts(qs) ==
    {c + 1 : c \in {c \in 1..Len(qs) : ResolvedJumpAt(qs, c) /\ c + 1 <= Len(qs)}}

\* lines 130-140
BlockStarts(qs) == {1} \cup TargetStarts(qs) \cup AfterJumpStarts(qs)

\* a variant whose runs end on the next start instead of before it
CutBlocksOverlap(qs, starts) ==
    [i \in 1..Len(starts) |->
        SubSeq(qs, starts[i],
               IF i < Len(starts) THEN starts[i + 1] ELSE Len(qs))]

\* lines 143-150: the runs between consecutive sorted starts
CutBlocks(qs, starts) ==
    [i \in 1..Len(starts) |->
        SubSeq(qs, starts[i],
               IF i < Len(starts) THEN starts[i + 1] - 1 ELSE Len(qs))]

BlockSplit(qs) ==
    IF qs = <<>> THEN <<>>
    ELSE CutBlocks(qs, SortedSeq(BlockStarts(qs)))

-----------------------------------------------------------------------------
(* BlockController._split_all_functions: function slices and call graph      *)

FuncSet == DOMAIN func_entries

\* line 164: index_map
IndexPos(idx) == CHOOSE p \in 1..Len(quads) : quads[p].idx = idx

\* lines 167-170: function names sorted by entry index
RECURSIVE SortByEntry(_)
SortByEntry(F) ==
    IF F = {} THEN <<>>
    ELSE LET f == CHOOSE g \in F : \A h \in F : func_entries[g] <= func_entries[h]
         IN <<f>> \o SortByEntry(F \ {f})

SortedEntries == SortByEntry(FuncSet)

\* lines 173-175: the slice of function number i of sorted_entries
SliceOf(i) ==
    LET se == SortedEntries
        start_pos == IndexPos(func_entries[se[i]])
        end_pos == IF i < Len(se) THEN IndexPos(func_entries[se[i + 1]]) - 1
                   ELSE Len(quads)
    IN SubSeq(quads, start_pos, end_pos)

FuncSlice(f) == SliceOf(CHOOSE i \in 1..Len(SortedEntries) : SortedEntries[i] = f)

\* lines 183-187: callee -> callers, from the `call` quadruples of the blocks
CallersOf(blocks, callee) ==
    {caller \in DOMAIN blocks :
        \E p \in 1..Len(Flatten(blocks[caller])) :
            LET q == Flatten(blocks[caller])[p].q
            IN q.op = "call" /\ q.arg1 = StrV(callee)}

-----------------------------------------------------------------------------
(* BlockController._build_cfg                                                *)

\* lines 218-222: idx_to_block, as the set of blocks that hold index t
BlocksHolding(blocks, t) ==
    IF IsInt(t)
    THEN {b \in 1..Len(blocks) : \E p \in 1..Len(blocks[b]) : blocks[b][p].idx = t.n}
    ELSE {}

LastQuad(block) == block[Len(block)].q

FallThrough(blocks, i) == IF i + 1 <= Len(blocks) THEN {i + 1} ELSE {}

\* a variant that forgets the fall-through edge of jnz
JumpSuccessorsNoFall(blocks, i) ==
    LET last_quad == LastQuad(blocks[i])
    IN IF last_quad.op \in {"j", "jnz"} /\ last_quad.result # NoneV
       THEN BlocksHolding(blocks, last_quad.result)
       ELSE {}

\* lines 230-237: the successors the terminating jump gives
JumpSuccessors(blocks, i) ==
    LET last_quad == LastQuad(blocks[i])
    IN IF last_quad.op = "j" /\ last_quad.result # NoneV
       THEN BlocksHolding(blocks, last_quad.result)
       ELSE IF last_quad.op = "jnz" /\ last_quad.result # NoneV
       THEN BlocksHolding(blocks, last_quad.result) \cup FallThrough(blocks, i)
       ELSE {}

\* lines 226-243
Successors(blocks, i) ==
    LET successors == JumpSuccessors(blocks, i)
    IN IF successors = {} THEN FallThrough(blocks, i) ELSE successors

BuildCfg(blocks) == [i \in 1..Len(blocks) |-> Successors(blocks, i)]

-----------------------------------------------------------------------------
(* BlockController._live_variable_analysis                                   *)

\* a variant that counts every name, whatever the function's scope holds
ReadOperandsAnyName(q, valid_vars, written_vars) ==
    {o.s : o \in {x \in {q.arg1, q.arg2} :
        IsStr(x) /\ x.s # "" /\ x.s \notin written_vars}}

\* lines 282-285: the operands of one quadruple that count as read
ReadOperands(q, valid_vars, written_vars) ==
    {o.s : o \in {x \in {q.arg1, q.arg2} :
        IsStr(x) /\ x.s # "" /\ x.s \in valid_vars /\ x.s \notin written_vars}}

\* lines 288-290: the result of one quadruple when it counts as written
WrittenResult(q, valid_vars) ==
    IF IsStr(q.result) /\ q.result.s # "" /\ q.result.s \in valid_vars
    THEN {q.result.s} ELSE {}

\* lines 276-293: read_vars and written_vars of one block
RECURSIVE ScanBlock(_, _, _, _, _)
ScanBlock(block, p, valid_vars, read_vars, written_vars) ==
    IF p > Len(block) THEN [used |-> read_vars, defined |-> written_vars]
    ELSE ScanBlock(block, p + 1, valid_vars,
                   read_vars \cup ReadOperands(block[p].q, valid_vars, written_vars),
                   written_vars \cup WrittenResult(block[p].q, valid_vars))

UsedVars(blocks, valid_vars) ==
    [i \in 1..Len(blocks) |-> ScanBlock(blocks[i], 1, valid_vars, {}, {}).used]

DefinedVars(blocks, valid_vars) ==
    [i \in 1..Len(blocks) |-> ScanBlock(blocks[i], 1, valid_vars, {}, {}).defined]

\* line 310
OutOf(ins, cfg, i) == UNION {ins[s] : s \in cfg[i]}

\* line 313
InOf(used, defined, out, i) == used[i] \cup (out \ defined[i])

\* a variant that never asks for another pass
SetsChangedNever(old_in, old_out, new_in, new_out) == FALSE

\* lines 317-318
SetsChanged(old_in, old_out, new_in, new_out) == old_in # new_in \/ old_out # new_out

\* lines 305-318: one pass of the for loop, from block i down to the first
RECURSIVE Sweep(_, _, _, _, _, _, _)
Sweep(i, ins, outs, cfg, used, defined, chg) ==
    IF i < 1 THEN [ins |-> ins, outs |-> outs, changed |-> chg]
    ELSE LET new_out == OutOf(ins, cfg, i)
             new_in == InOf(used, defined, new_out, i)
         IN Sweep(i - 1,
                  [ins EXCEPT ![i] = new_in],
                  [outs EXCEPT ![i] = new_out],
                  cfg, used, defined,
                  chg \/ SetsChanged(ins[i], outs[i], new_in, new_out))

-----------------------------------------------------------------------------
(* BlockController._initialize_analysis as a sequence of steps               *)

\* lines 161-187: the blocks of every function and the call graph
SplitAllFunctions ==
    /\ bpc = "split"
    /\ func_blocks' = [f \in FuncSet |-> BlockSplit(FuncSlice(f))]
    /\ call_graph' = [f \in FuncSet |-> CallersOf(func_blocks', f)]
    /\ order' = <<>>
    /\ visited' = {}
    /\ dfs_stack' = <<>>
    /\ bpc' = "dfs"
    /\ UNCHANGED <<quads, func_entries, func_vars, func_cfgs, in_sets, out_sets,
                   live_k, sweeps>>

\* lines 200-201: the function the next top-level visit() is called on
NextRoot ==
    IF "main" \in FuncSet \ visited THEN "main"
    ELSE LET rest == SelectSeq(SortedEntries, LAMBDA f : f \notin visited)
         IN rest[1]

\* lines 193-194 at top level: visit(f) entered for an unvisited function
VisitRoot ==
    /\ bpc = "dfs"
    /\ dfs_stack = <<>>
    /\ FuncSet \ visited # {}
    /\ visited' = visited \cup {NextRoot}
    /\ dfs_stack' = <<[f |-> NextRoot, todo |-> call_graph[NextRoot]]>>
    /\ UNCHANGED <<quads, func_entries, func_vars, func_blocks, call_graph, order,
                   func_cfgs, in_sets, out_sets, live_k, sweeps, bpc>>

\* a variant of the guard that lets every call of visit proceed
NotVisitedAlways(f, seen) == TRUE

\* line 193: `if f not in visited`
NotVisited(f, seen) == f \notin seen

\* lines 195-196: the loop over the callers takes one caller (a Python set
\* has no fixed iteration order) and calls visit on it
VisitCaller ==
    /\ bpc = "dfs"
    /\ dfs_stack # <<>>
    /\ LET top == dfs_stack[Len(dfs_stack)]
       IN \E caller \in top.todo :
            LET rest == [dfs_stack EXCEPT ![Len(dfs_stack)].todo = top.todo \ {caller}]
            IN IF NotVisited(caller, visited)
               THEN /\ dfs_stack' = Append(rest, [f |-> caller, todo |-> call_graph[caller]])
                    /\ visited' = visited \cup {caller}
               ELSE /\ dfs_stack' = rest
                    /\ visited' = visited
    /\ UNCHANGED <<quads, func_entries, func_vars, func_blocks, call_graph, order,
                   func_cfgs, in_sets, out_sets, live_k, sweeps, bpc>>

\* a variant that puts f in front
PrependOrder(ord, f) == <<f>> \o ord

\* line 197: order.append(f), and visit(f) returns
AppendOrder(ord, f) == Append(ord, f)

VisitReturn ==
    /\ bpc = "dfs"
    /\ dfs_stack # <<>>
    /\ dfs_stack[Len(dfs_stack)].todo = {}
    /\ order' = AppendOrder(order, dfs_stack[Len(dfs_stack)].f)
    /\ dfs_stack' = SubSeq(dfs_stack, 1, Len(dfs_stack) - 1)
    /\ UNCHANGED <<quads, func_entries, func_vars, func_blocks, call_graph, visited,
                   func_cfgs, in_sets, out_sets, live_k, sweeps, bpc>>

\* line 203 and lines 24-27: func_blocks is returned in `order`, the CFGs are built
BuildCfgs ==
    /\ bpc = "dfs"
    /\ dfs_stack = <<>>
    /\ FuncSet \ visited = {}
    /\ func_cfgs' = [f \in FuncSet |-> BuildCfg(func_blocks[f])]
    /\ in_sets' = [f \in FuncSet |-> [i \in 1..Len(func_blocks[f]) |-> {}]]
    /\ out_sets' = [f \in FuncSet |-> [i \in 1..Len(func_blocks[f]) |-> {}]]
    /\ live_k' = 1
    /\ sweeps' = 0
    /\ bpc' = "live"
    /\ UNCHANGED <<quads, func_entries, func_vars, func_blocks, call_graph, order,
                   visited, dfs_stack>>

\* lines 300-318: one pass of the while loop of _live_variable_analysis for
\* the function at live_k; when nothing changed the analysis of it returns
LiveSweep ==
    /\ bpc = "live"
    /\ live_k <= Len(order)
    /\ LET f == order[live_k]
           blocks == func_blocks[f]
           r == Sweep(Len(blocks), in_sets[f], out_sets[f], func_cfgs[f],
                      UsedVars(blocks, func_vars[f]), DefinedVars(blocks, func_vars[f]),
                      FALSE)
       IN /\ in_sets' = [in_sets EXCEPT ![f] = r.ins]
          /\ out_sets' = [out_sets EXCEPT ![f] = r.outs]
          /\ IF r.changed
             THEN /\ sweeps' = sweeps + 1
                  /\ live_k' = live_k
             ELSE /\ sweeps' = 0
                  /\ live_k' = live_k + 1
    /\ UNCHANGED <<quads, func_entries, func_vars, func_blocks, call_graph, order,
                   visited, dfs_stack, func_cfgs, bpc>>

\* lines 29-36: every function has been analysed
AnalysisDone ==
    /\ bpc = "live"
    /\ live_k > Len(order)
    /\ bpc' = "done"
    /\ UNCHANGED <<quads, func_entries, func_vars, func_blocks, call_graph, order,
                   visited, dfs_stack, func_cfgs, in_sets, out_sets, live_k, sweeps>>

-----------------------------------------------------------------------------
(* Quadruple streams handed to BlockController                               *)

MaxLen == 4

JQuad(t) == Quadruple("j", NoneV, NoneV, t)
JnzQuad(t) == Quadruple("jnz", StrV("a"), NoneV, t)
RetQuad == Quadruple("RETURN", StrV("b"), NoneV, StrV(RetReg))
DefQuad == Quadruple("=", IntV(1), NoneV, StrV("a"))
AddQuad == Quadruple("+", StrV("a"), StrV("b"), StrV("b"))
CallQuad(f) == Quadruple("call", StrV(f), IntV(0), NoneV)

QuadShapes(L) ==
    {JQuad(NoneV)} \cup {JQuad(IntV(t)) : t \in 1..L} \cup {JnzQuad(IntV(t)) : t \in 1..L}
        \cup {RetQuad, DefQuad, AddQuad}

Indexed(s) == [p \in 1..Len(s) |-> WithIdx(p, s[p])]

EntryTables(L) ==
    {("main" :> 1)} \cup {("f" :> 1) @@ ("main" :> k) : k \in 2..L}
        \cup {("main" :> 1) @@ ("f" :> k) : k \in 2..L}

\* What the translation guarantees of the stream of one function: jumps stay
\* inside the function; a jnz is followed by the j of its false exit and its
\* own target, never None, lies behind that j (_handle_BranchableExpression,
\* _handle_ForExpression); the body holds a RETURN (_handle_FunctionDeclaration).
\* A j can keep the target None (a break or continue that was never patched);
\* it lies in a loop, whose closing j to the header comes behind it
\* (_handle_WhileStatement, _handle_ForStatement, _handle_LoopStatement).
SliceWellFormed(qs, s, e) ==
    /\ \A p \in s..e :
        LET q == qs[p].q
        IN /\ (q.op = "j" /\ q.result # NoneV) => (s <= q.result.n /\ q.result.n <= e)
           /\ (q.op = "j" /\ q.result = NoneV) =>
                \E c \in (p + 1)..e :
                    /\ qs[c].q.op = "j"
                    /\ IsInt(qs[c].q.result)
                    /\ qs[c].q.result.n <= p
           /\ q.op = "jnz" => /\ p + 1 <= e
                              /\ qs[p + 1].q.op = "j"
                              /\ p + 2 <= q.result.n
                              /\ q.result.n <= e
    /\ \E p \in s..e : qs[p].q.op = "RETURN"

StreamWellFormed(qs, entries) ==
    \A f \in DOMAIN entries :
        LET later == {entries[g] : g \in {g \in DOMAIN entries : entries[g] > entries[f]}}
        IN SliceWellFormed(qs, entries[f],
                           IF later = {} THEN Len(qs) ELSE Min(later) - 1)

ValidVars == ("main" :> {"a", "b"}) @@ ("f" :> {"a"}) @@ ("g" :> {"b"})

\* Programs of up to three functions that only call: a function can call the
\* functions declared before it (the callee's symbol is looked up when the
\* call is translated, _handle_Element).
FuncNames == {"f", "g", "main"}

Decls == {d \in UNION {[1..n -> FuncNames] : n \in 1..3} :
            /\ \A i, j \in 1..Len(d) : i # j => d[i] # d[j]
            /\ "main" \in Range(d)}

CallTables(d) ==
    {c \in [1..Len(d) -> SUBSET Range(d)] :
        \A i \in 1..Len(d) : c[i] \subseteq {d[j] : j \in 1..(i - 1)}}

RECURSIVE CallQuads(_)
CallQuads(callees) ==
    IF callees = {} THEN <<>>
    ELSE LET f == CHOOSE x \in callees : TRUE
         IN <<CallQuad(f)>> \o CallQuads(callees \ {f})

RECURSIVE CallStream(_, _, _)
CallStream(d, c, i) ==
    IF i > Len(d) THEN <<>>
    ELSE CallQuads(c[i]) \o <<RetQuad>> \o CallStream(d, c, i + 1)

RECURSIVE CallEntry(_, _, _)
CallEntry(d, c, i) ==
    IF i = 1 THEN 1 ELSE CallEntry(d, c, i - 1) + Cardinality(c[i - 1]) + 1

InitStreams ==
    \/ \E L \in 1..MaxLen :
        /\ \E s \in [1..L -> QuadShapes(L)] : quads = Indexed(s)
        /\ func_entries \in EntryTables(L)
        /\ StreamWellFormed(quads, func_entries)
    \/ \E d \in Decls : \E c \in CallTables(d) :
        /\ quads = Indexed(CallStream(d, c, 1))
        /\ func_entries = [f \in Range(d) |->
                              CallEntry(d, c, CHOOSE i \in 1..Len(d) : d[i] = f)]

-----------------------------------------------------------------------------
(* Source texts given to the translation, as token sequences.  A header      *)
(* token stands for fn ID ( ) with its optional -> i32; "1" is a NUM; "<1"   *)
(* a Relop with its right operand; "for" stands for: for i in 0 .. 1;        *)
(* "break;", "continue;" and "return;" are the keyword with its ';'.         *)

MaxBody == 2

Headers ==
    ("fn main()" :> [name |-> "main", ret |-> "unit"]) @@
    ("fn f()" :> [name |-> "f", ret |-> "unit"]) @@
    ("fn f() -> i32" :> [name |-> "f", ret |-> "i32"])

Cond == <<"1", "<1">>

Braced(b) == <<"{">> \o b \o <<"}">>

Atoms == {<<";">>, <<"break;">>, <<"continue;">>, <<"return;">>, <<"1", ";">>}

\* the concatenations of at most n members of S
RECURSIVE SeqsOver(_, _)
SeqsOver(S, n) ==
    IF n = 0 THEN {<<>>}
    ELSE LET r == SeqsOver(S, n - 1) IN r \cup {a \o b : a \in S, b \in r}

LoopsOver(B) ==
    {<<"while">> \o Cond \o Braced(b) : b \in B} \cup
    {<<"loop">> \o Braced(b) : b \in B} \cup
    {<<"for">> \o Braced(b) : b \in B}

IfsOver(B, E) ==
    {<<"if">> \o Cond \o Braced(b) : b \in B} \cup
    {<<"if">> \o Cond \o Braced(b) \o <<"else">> \o Braced(e) : b \in B, e \in E} \cup
    {<<"if">> \o Cond \o Braced(b) \o <<"else", "if">> \o Cond \o Braced(e) :
        b \in E, e \in E}

\* if Expression { .. 1 } else { 1 }, a SelectExpression
Selects ==
    {<<"if">> \o Cond \o Braced(b \o <<"1">>) \o <<"else">> \o Braced(<<"1">>) :
        b \in SeqsOver(Atoms, 1)}

Trails == {<<>>, <<"1", ";">>}

\* statement sequences: flat ones, and one control statement nested in another
FlatBodies == SeqsOver(Atoms, MaxBody)

ShortBodies == SeqsOver(Atoms, MaxBody - 1)

Exits == {<<>>, <<"break;">>}

FlatStatements == LoopsOver(FlatBodies) \cup IfsOver(FlatBodies, Exits)

NestedBodies ==
    {c \o t : c \in LoopsOver(ShortBodies) \cup IfsOver(ShortBodies, Exits)
                      \cup {s \o <<";">> : s \in Selects},
              t \in Trails}

FunctionBodies ==
    {Braced(c \o t) : c \in FlatStatements \cup LoopsOver(NestedBodies),
                      t \in {<<>>, <<"return;">>}} \cup
    {Braced(b) : b \in FlatBodies \cup Selects \cup {<<"1">>, <<"loop", "{", "break;", "}">>}}

Sources ==
    {<<h>> \o b : h \in {"fn main()", "fn f() -> i32"}, b \in FunctionBodies} \cup
    {<<"fn f()">> \o Braced(b) \o <<"fn main()">> \o Braced(c) :
        b \in ShortBodies, c \in {<<>>, <<"return;">>}}
-----------------------------------------------------------------------------
(* IntermediateCodeGenerator: emit, backpatch, merge_lists, new_temp and     *)
(* next_quad (compiler_codegenerator.py), as section 4.1 of the              *)
(* specification describes them.  Jump lists are kept as sets of indices.    *)

TempNames == <<"T1", "T2", "T3", "T4", "T5", "T6", "T7", "T8">>

next_quad == Len(ir)

emit(qs, q) == Append(qs, q)

backpatch(qs, list, target) ==
    [p \in 1..Len(qs) |->
        IF (p - 1) \in list THEN [qs[p] EXCEPT !.result = IntV(target)] ELSE qs[p]]

merge_lists(a, b) == a \cup b

new_temp(n) == StrV(TempNames[n + 1])

-----------------------------------------------------------------------------
(* ParseNode with its SynthesizedAttributes (compiler_parser_node.py).       *)
(* type_obj is "none" (None), "unit", "i32" or "bool"; quad_index -1 is None;*)
(* has_return records whether the subtree holds a ReturnStatement, which     *)
(* has_return() of _handle_FunctionDeclaration searches for.                 *)
ParseNode(sym) ==
    [sym |-> sym, place |-> NoneV, type_obj |-> "none", quad_index |-> -1,
     true_list |-> {}, false_list |-> {}, next_list |-> {},
     break_list |-> {}, continue_list |-> {},
     last_return |-> FALSE, has_return |-> FALSE]

\* node.attributes = child.attributes (or a deep copy of it)
Inherit(sym, child) == [child EXCEPT !.sym = sym, !.last_return = FALSE]

NoFunction == [name |-> "", quad_index |-> -1, ret |-> "none"]

\* _is_type_compatible on None, UnitType, BaseType('i32'), BaseType('bool')
IsTypeCompatible(actual, expected) == actual = expected /\ actual # "none"

\* _is_binop_compatible for a comparison operator
IsBinopCompatible(left, right) ==
    IsTypeCompatible(left, right) /\ left \in {"i32", "bool"}

-----------------------------------------------------------------------------
(* The parse stack: the parser reduces a production when its right-hand side *)
(* is on top of the stack, and calls the handler of the left-hand side.      *)

Top(n) == sem_stack[Len(sem_stack) - n]
Pre(n) == SubSeq(sem_stack, 1, Len(sem_stack) - n)

SymAt(s, n) == IF Len(s) > n THEN s[Len(s) - n].sym ELSE "bottom"

Ends(pat) ==
    /\ Len(sem_stack) >= Len(pat)
    /\ \A i \in 1..Len(pat) : sem_stack[Len(sem_stack) - Len(pat) + i].sym = pat[i]

\* what a BackpatchMarker on top of s opens, by the production it stands in
MarkerRole(s) ==
    IF SymAt(s, 0) # "BackpatchMarker" THEN "none"
    ELSE CASE SymAt(s, 1) = "StatementString" -> "sep"
           [] SymAt(s, 1) = "while" -> "cond"
           [] SymAt(s, 1) \in {"BranchableExpression", "ForExpression",
                               "LoopExprMarker"} -> "body"
           [] SymAt(s, 1) = "IfExitMarker" -> "else"
           [] OTHER -> "none"

\* places where a Statement, an Expression, a Block may begin
StmtStart(s) == SymAt(s, 0) = "{" \/ MarkerRole(s) = "sep"
ExprStart(s) == StmtStart(s) \/ SymAt(s, 0) = "if" \/ MarkerRole(s) = "cond"
BodyStart(s) ==
    SymAt(s, 0) = "FunctionHeaderDeclaration" \/ MarkerRole(s) \in {"body", "else"}

\* the next token of the source text and its consumption by a shift
Lookahead == IF src = <<>> THEN "$" ELSE Head(src)

\* the stack below the innermost open '{'
Enclosing(s) ==
    LET i == Max({0} \cup {j \in 1..Len(s) : s[j].sym = "{"})
    IN SubSeq(s, 1, i - 1)

\* the body of a while, for or loop is a Block: an expression cannot end it
LoopBody(s) == MarkerRole(s) = "body" /\ SymAt(s, 2) # "if"

MayEndExpression == Lookahead = "}" => ~LoopBody(Enclosing(sem_stack))

Consume == src' = Tail(src)

Push(node) == sem_stack' = Append(sem_stack, node)

\* replace the n nodes on top by their parent
Reduce(n, node) ==
    sem_stack' = Append(Pre(n),
        [node EXCEPT !.has_return =
            node.has_return \/ \E i \in 0..(n - 1) : Top(i).has_return])

ReportError == errors' = TRUE

semRest == <<start_list, loop_stack, loop_res, errors, current_function,
             functions, temp_count, spc>>

-----------------------------------------------------------------------------
(* Handlers of SemanticChecker, called bottom-up as the parser reduces       *)

\* _handle_JFuncStart: Program -> JFuncStart DeclarationString
handle_JFuncStart ==
    /\ spc = "start"
    /\ start_list' = {next_quad}
    /\ ir' = emit(ir, JQuad(NoneV))
    /\ spc' = "run"
    /\ UNCHANGED <<sem_stack, loop_stack, loop_res, errors, current_function,
                   functions, temp_count, src>>

\* _handle_FunctionHeaderDeclaration: fn ID ( ) and fn ID ( ) -> Type
handle_FunctionHeaderDeclaration ==
    /\ spc = "run"
    /\ sem_stack = <<>>
    /\ Lookahead \in DOMAIN Headers
    /\ Consume
    /\ current_function' = [name |-> Headers[Lookahead].name,
                            quad_index |-> next_quad,
                            ret |-> Headers[Lookahead].ret]
    /\ Push(ParseNode("FunctionHeaderDeclaration"))
    /\ UNCHANGED <<ir, start_list, loop_stack, loop_res, errors, functions,
                   temp_count, spc>>

\* _handle_FunctionDeclaration, body an expression block (lines 335-344);
\* the mismatch branch returns before the function symbol is inserted
FunctionDeclarationOfExpressionBlock ==
    /\ spc = "run"
    /\ Ends(<<"FunctionHeaderDeclaration", "FunctionExpressionBlock">>)
    /\ sem_stack' = <<>>
    /\ UNCHANGED src
    /\ IF ~IsTypeCompatible(Top(0).type_obj, current_function.ret)
       THEN /\ ReportError
            /\ ir' = emit(ir, Quadruple("RETURN", NoneV, NoneV, StrV(RetReg)))
            /\ UNCHANGED <<current_function, functions>>
       ELSE /\ ir' = emit(ir, Quadruple("RETURN", Top(0).place, NoneV, StrV(RetReg)))
            /\ functions' = functions @@
                   (current_function.name :> current_function.quad_index)
            /\ current_function' = NoFunction
            /\ UNCHANGED errors
    /\ UNCHANGED <<start_list, loop_stack, loop_res, temp_count, spc>>

\* _handle_FunctionDeclaration, body a statement block (lines 346-365)
FunctionDeclarationOfBlock ==
    /\ spc = "run"
    /\ Ends(<<"FunctionHeaderDeclaration", "Block">>)
    /\ sem_stack' = <<>>
    /\ UNCHANGED src
    /\ LET missing == ~Top(0).last_return /\ current_function.ret # "unit"
           implicit == ~missing /\ ~Top(0).has_return
           emitted == IF implicit
                      THEN emit(ir, Quadruple("RETURN", NoneV, NoneV, StrV(RetReg)))
                      ELSE ir
       IN /\ errors' = (errors \/ missing)
          /\ ir' = backpatch(emitted, Top(0).next_list, Len(emitted) - 1)
    /\ functions' = functions @@
           (current_function.name :> current_function.quad_index)
    /\ current_function' = NoFunction
    /\ UNCHANGED <<start_list, loop_stack, loop_res, temp_count, spc>>

handle_FunctionDeclaration ==
    \/ FunctionDeclarationOfExpressionBlock
    \/ FunctionDeclarationOfBlock

\* _handle_Program
handle_Program ==
    /\ spc = "run"
    /\ sem_stack = <<>>
    /\ src = <<>>
    /\ IF "main" \notin DOMAIN functions
       THEN ReportError /\ UNCHANGED ir
       ELSE ir' = backpatch(ir, start_list, functions["main"]) /\ UNCHANGED errors
    /\ spc' = "done"
    /\ UNCHANGED <<sem_stack, start_list, loop_stack, loop_res, current_function,
                   functions, temp_count, src>>

\* the parser shifts '{', 'if', 'while'
Shift ==
    /\ spc = "run"
    /\ CASE Lookahead = "{" -> BodyStart(sem_stack) \/ ExprStart(sem_stack)
         [] Lookahead = "if" -> ExprStart(sem_stack) \/ MarkerRole(sem_stack) = "else"
         [] Lookahead = "while" -> SymAt(sem_stack, 0) = "LoopMarker"
         [] OTHER -> FALSE
    /\ Push(ParseNode(Lookahead))
    /\ Consume
    /\ UNCHANGED <<ir, semRest>>

\* _handle_Block, on the shift of '}'
handle_Block ==
    /\ spc = "run"
    /\ Lookahead = "}"
    /\ Consume
    /\ \/ /\ SymAt(sem_stack, 0) = "{"
          /\ BodyStart(Pre(1))
          /\ Reduce(1, ParseNode("Block"))
       \/ /\ Ends(<<"{", "StatementString">>)
          /\ BodyStart(Pre(2))
          /\ Reduce(2, [ParseNode("Block") EXCEPT
                           !.next_list = Top(0).next_list,
                           !.break_list = Top(0).break_list,
                           !.continue_list = Top(0).continue_list,
                           !.last_return = Top(0).last_return])
    /\ UNCHANGED <<ir, semRest>>

\* _handle_FunctionExpressionBlock, on the shift of '}'
handle_FunctionExpressionBlock ==
    /\ spc = "run"
    /\ Lookahead = "}"
    /\ Consume
    /\ Ends(<<"{", "FunctionExpressionString">>)
    /\ Reduce(2, Inherit("FunctionExpressionBlock", Top(0)))
    /\ UNCHANGED <<ir, semRest>>

\* _handle_FunctionExpressionString: the single expression, and
\* StatementString BackpatchMarker FunctionExpressionString, which takes the
\* attributes of its last child only (line 441)
handle_FunctionExpressionString ==
    /\ spc = "run"
    /\ \/ /\ SymAt(sem_stack, 0) = "Expression"
          /\ StmtStart(Pre(1))
          /\ Lookahead \in {";", "}"}
          /\ MayEndExpression
          /\ Reduce(1, Inherit("FunctionExpressionString", Top(0)))
          /\ UNCHANGED ir
       \/ /\ Ends(<<"StatementString", "BackpatchMarker", "FunctionExpressionString">>)
          /\ ir' = backpatch(ir, Top(2).next_list, Top(1).quad_index)
          /\ Reduce(3, [Inherit("FunctionExpressionString", Top(0)) EXCEPT
                           !.last_return = TRUE])
    /\ UNCHANGED <<semRest, src>>

\* _handle_StatementString
handle_StatementString ==
    /\ spc = "run"
    /\ \/ /\ Ends(<<"StatementString", "BackpatchMarker", "Statement">>)
          /\ ir' = backpatch(ir, Top(2).next_list, Top(1).quad_index)
          /\ Reduce(3, [ParseNode("StatementString") EXCEPT
                           !.next_list = Top(0).next_list,
                           !.break_list =
                               merge_lists(Top(2).break_list, Top(0).break_list),
                           !.continue_list =
                               merge_lists(Top(2).continue_list, Top(0).continue_list),
                           !.last_return = TRUE])
          /\ UNCHANGED src
       \/ /\ Ends(<<"{", "FunctionExpressionString">>)
          /\ Lookahead = ";"
          /\ Consume
          /\ Reduce(1, Inherit("StatementString", Top(0)))
          /\ UNCHANGED ir
       \/ /\ Ends(<<"{", "Statement">>)
          /\ Reduce(1, [ParseNode("StatementString") EXCEPT
                           !.next_list = Top(0).next_list,
                           !.break_list = Top(0).break_list,
                           !.continue_list = Top(0).continue_list,
                           !.last_return = TRUE])
          /\ UNCHANGED <<ir, src>>
    /\ UNCHANGED semRest

StatementKinds ==
    {"ReturnStatement", "IfStatement", "CirculateStatement", "LoopStatement",
     "BreakStatement", "ContinueStatement"}

\* _handle_Statement: Statement -> ';' and Statement -> one of StatementKinds
handle_Statement ==
    /\ spc = "run"
    /\ \/ /\ StmtStart(sem_stack)
          /\ Lookahead = ";"
          /\ Consume
          /\ Push(ParseNode("Statement"))
       \/ /\ SymAt(sem_stack, 0) \in StatementKinds
          /\ StmtStart(Pre(1))
          /\ Reduce(1, [Inherit("Statement", Top(0)) EXCEPT
                           !.last_return = (Top(0).sym = "ReturnStatement")])
          /\ UNCHANGED src
    /\ UNCHANGED <<ir, semRest>>

\* _handle_ReturnStatement: return ;
handle_ReturnStatement ==
    /\ spc = "run"
    /\ StmtStart(sem_stack)
    /\ Lookahead = "return;"
    /\ Consume
    /\ errors' = (errors \/ ~IsTypeCompatible("unit", current_function.ret))
    /\ ir' = emit(ir, Quadruple("RETURN", NoneV, NoneV, StrV(RetReg)))
    /\ Push([ParseNode("ReturnStatement") EXCEPT !.has_return = TRUE])
    /\ UNCHANGED <<start_list, loop_stack, loop_res, current_function, functions,
                   temp_count, spc>>

\* _handle_Expression (1 child): Expression -> AddExpression, here a NUM
ExpressionOfAddExpression ==
    /\ spc = "run"
    /\ ExprStart(sem_stack)
    /\ Lookahead = "1"
    /\ Consume
    /\ Push([ParseNode("Expression") EXCEPT !.place = IntV(1), !.type_obj = "i32"])
    /\ UNCHANGED <<ir, semRest>>

\* _handle_Expression (1 child): FunctionExpressionBlock, SelectExpression or
\* LoopStatement; the attributes are copied, then the child's next_list is
\* backpatched to the next quadruple (lines 386-389)
ExpressionOfBlockLike ==
    /\ spc = "run"
    /\ SymAt(sem_stack, 0) \in
          {"FunctionExpressionBlock", "SelectExpression", "LoopStatement"}
    /\ ExprStart(Pre(1))
    /\ Lookahead \in {";", "}", "<1", "{"}
    /\ MayEndExpression
    /\ ir' = backpatch(ir, Top(0).next_list, next_quad)
    /\ Reduce(1, Inherit("Expression", Top(0)))
    /\ UNCHANGED <<semRest, src>>

\* _handle_Expression (3 children): Expression Relop AddExpression, the right
\* operand a NUM (lines 391-408)
ExpressionOfRelop ==
    /\ spc = "run"
    /\ SymAt(sem_stack, 0) = "Expression"
    /\ Lookahead = "<1"
    /\ Consume
    /\ IF ~IsBinopCompatible(Top(0).type_obj, "i32")
       THEN /\ ReportError
            /\ Reduce(1, [ParseNode("Expression") EXCEPT !.type_obj = "unit"])
            /\ UNCHANGED <<ir, temp_count>>
       ELSE /\ ir' = emit(ir, Quadruple("<", Top(0).place, IntV(1), new_temp(temp_count)))
            /\ temp_count' = temp_count + 1
            /\ Reduce(1, [ParseNode("Expression") EXCEPT
                             !.place = new_temp(temp_count), !.type_obj = "bool"])
            /\ UNCHANGED errors
    /\ UNCHANGED <<start_list, loop_stack, loop_res, current_function, functions, spc>>

handle_Expression ==
    \/ ExpressionOfAddExpression
    \/ ExpressionOfBlockLike
    \/ ExpressionOfRelop

\* _handle_BackpatchMarker
handle_BackpatchMarker ==
    /\ spc = "run"
    /\ \/ SymAt(sem_stack, 0) \in
             {"while", "BranchableExpression", "ForExpression", "LoopExprMarker",
              "IfExitMarker"}
       \/ SymAt(sem_stack, 0) = "StatementString" /\ Lookahead # "}"
    /\ Push([ParseNode("BackpatchMarker") EXCEPT !.quad_index = next_quad])
    /\ UNCHANGED <<ir, semRest, src>>

\* _handle_BranchableExpression (with the empty BranchMarker)
handle_BranchableExpression ==
    /\ spc = "run"
    /\ SymAt(sem_stack, 0) = "Expression"
    /\ SymAt(sem_stack, 1) = "if" \/ MarkerRole(Pre(1)) = "cond"
    /\ Lookahead = "{"
    /\ IF Top(0).type_obj # "bool"
       THEN /\ ReportError
            /\ Reduce(1, ParseNode("BranchableExpression"))
            /\ UNCHANGED ir
       ELSE /\ Reduce(1, [ParseNode("BranchableExpression") EXCEPT
                             !.true_list = {next_quad},
                             !.false_list = {next_quad + 1}])
            /\ ir' = emit(emit(ir, Quadruple("jnz", Top(0).place, NoneV, NoneV)),
                          JQuad(NoneV))
            /\ UNCHANGED errors
    /\ UNCHANGED <<start_list, loop_stack, loop_res, current_function, functions,
                   temp_count, spc, src>>

\* _handle_IfExitMarker, followed by the shift of 'else'
handle_IfExitMarker ==
    /\ spc = "run"
    /\ \/ Ends(<<"if", "BranchableExpression", "BackpatchMarker", "Block">>)
       \/ Ends(<<"if", "BranchableExpression", "BackpatchMarker",
                 "FunctionExpressionBlock">>)
    /\ Lookahead = "else"
    /\ Consume
    /\ Push([ParseNode("IfExitMarker") EXCEPT !.next_list = {next_quad}])
    /\ ir' = emit(ir, JQuad(NoneV))
    /\ UNCHANGED semRest

\* _handle_ElseExitMarkder
handle_ElseExitMarkder ==
    /\ spc = "run"
    /\ Ends(<<"if", "BranchableExpression", "BackpatchMarker",
              "FunctionExpressionBlock", "IfExitMarker", "BackpatchMarker",
              "FunctionExpressionBlock">>)
    /\ Push([ParseNode("ElseExitMarkder") EXCEPT !.next_list = {next_quad}])
    /\ ir' = emit(ir, JQuad(NoneV))
    /\ UNCHANGED <<semRest, src>>

\* _handle_SelectExpression
handle_SelectExpression ==
    /\ spc = "run"
    /\ Ends(<<"if", "BranchableExpression", "BackpatchMarker",
              "FunctionExpressionBlock", "IfExitMarker", "BackpatchMarker",
              "FunctionExpressionBlock", "ElseExitMarkder">>)
    /\ LET cond_result == Top(6)
           if_start == Top(5)
           if_block == Top(4)
           if_end == Top(3)
           else_start == Top(2)
           else_block == Top(1)
           else_end == Top(0)
           temp == new_temp(temp_count)
           q1 == backpatch(ir, cond_result.true_list, if_start.quad_index)
           q2 == backpatch(q1, cond_result.false_list, else_start.quad_index)
           q3 == backpatch(q2, if_end.next_list, Len(q2))
           q4 == emit(q3, Quadruple("=", if_block.place, NoneV, temp))
           q5 == emit(q4, JQuad(NoneV))
           q6 == backpatch(q5, else_end.next_list, Len(q5))
           q7 == emit(q6, Quadruple("=", else_block.place, NoneV, temp))
       IN IF ~IsTypeCompatible(if_block.type_obj, else_block.type_obj)
          THEN /\ ReportError
               /\ Reduce(8, [ParseNode("SelectExpression") EXCEPT !.type_obj = "unit"])
               /\ UNCHANGED <<ir, temp_count>>
          ELSE /\ ir' = q7
               /\ temp_count' = temp_count + 1
               /\ Reduce(8, [ParseNode("SelectExpression") EXCEPT
                                !.next_list = {Len(q4)},
                                !.place = temp,
                                !.type_obj = if_block.type_obj])
               /\ UNCHANGED errors
    /\ UNCHANGED <<start_list, loop_stack, loop_res, current_function, functions, spc,
                   src>>

\* _handle_IfStatement
handle_IfStatement ==
    /\ spc = "run"
    /\ \/ /\ Ends(<<"if", "BranchableExpression", "BackpatchMarker", "Block">>)
          /\ Lookahead # "else"
          /\ ir' = backpatch(ir, Top(2).true_list, Top(1).quad_index)
          /\ Reduce(4, [ParseNode("IfStatement") EXCEPT
                           !.next_list = merge_lists(Top(2).false_list, Top(0).next_list),
                           !.break_list = Top(0).break_list,
                           !.continue_list = Top(0).continue_list])
       \/ /\ \/ Ends(<<"if", "BranchableExpression", "BackpatchMarker", "Block",
                       "IfExitMarker", "BackpatchMarker", "Block">>)
             \/ Ends(<<"if", "BranchableExpression", "BackpatchMarker", "Block",
                       "IfExitMarker", "BackpatchMarker", "IfStatement">>)
          /\ ir' = backpatch(backpatch(ir, Top(5).true_list, Top(4).quad_index),
                             Top(5).false_list, Top(1).quad_index)
          /\ Reduce(7, [ParseNode("IfStatement") EXCEPT
                           !.next_list = merge_lists(
                               merge_lists(Top(3).next_list, Top(2).next_list),
                               Top(0).next_list),
                           !.break_list =
                               merge_lists(Top(3).break_list, Top(0).break_list),
                           !.continue_list =
                               merge_lists(Top(3).continue_list, Top(0).continue_list)])
    /\ UNCHANGED <<semRest, src>>

\* _handle_LoopMarker
handle_LoopMarker ==
    /\ spc = "run"
    /\ \/ Lookahead \in {"while", "for"} /\ StmtStart(sem_stack)
       \/ Lookahead = "loop" /\ ExprStart(sem_stack)
    /\ loop_stack' = Append(loop_stack, next_quad)
    /\ Push(ParseNode("LoopMarker"))
    /\ UNCHANGED <<ir, start_list, loop_res, errors, current_function, functions,
                   temp_count, spc, src>>

\* _handle_LoopExprMarker, after the shift of 'loop'
handle_LoopExprMarker ==
    /\ spc = "run"
    /\ SymAt(sem_stack, 0) = "LoopMarker"
    /\ Lookahead = "loop"
    /\ Consume
    /\ loop_res' = Append(loop_res, [place |-> new_temp(temp_count), type |-> "none"])
    /\ temp_count' = temp_count + 1
    /\ Push(ParseNode("LoopExprMarker"))
    /\ UNCHANGED <<ir, start_list, loop_stack, errors, current_function, functions, spc>>

\* _handle_ForExpression: for VarDeclaration in NUM .. NUM
handle_ForExpression ==
    /\ spc = "run"
    /\ SymAt(sem_stack, 0) = "LoopMarker"
    /\ Lookahead = "for"
    /\ Consume
    /\ LET temp_iterator == new_temp(temp_count)
           temp_flag == new_temp(temp_count + 1)
           q1 == emit(ir, Quadruple("=", IntV(0), NoneV, temp_iterator))
           q2 == emit(q1, Quadruple("<", temp_iterator, IntV(1), temp_flag))
           q3 == emit(q2, Quadruple("=", temp_iterator, NoneV, StrV("i")))
           q4 == emit(q3, Quadruple("+", temp_iterator, IntV(1), temp_iterator))
           q5 == emit(q4, Quadruple("jnz", temp_flag, NoneV, NoneV))
       IN /\ ir' = emit(q5, JQuad(NoneV))
          /\ Push([ParseNode("ForExpression") EXCEPT
                      !.quad_index = Len(q1),
                      !.true_list = {Len(q4)},
                      !.false_list = {Len(q4) + 1}])
    /\ temp_count' = temp_count + 2
    /\ UNCHANGED <<start_list, loop_stack, loop_res, errors, current_function,
                   functions, spc>>

\* _handle_WhileStatement
handle_WhileStatement ==
    /\ spc = "run"
    /\ Ends(<<"while", "BackpatchMarker", "BranchableExpression", "BackpatchMarker",
              "Block">>)
    /\ LET loop_start == Top(3)
           cond_result == Top(2)
           body_start == Top(1)
           loop_body == Top(0)
           q1 == backpatch(ir, cond_result.true_list, body_start.quad_index)
           q2 == backpatch(q1, loop_body.next_list, loop_start.quad_index)
           q3 == backpatch(q2, loop_body.continue_list, loop_start.quad_index)
       IN /\ ir' = emit(q3, JQuad(IntV(loop_start.quad_index)))
          /\ Reduce(5, [ParseNode("WhileStatement") EXCEPT
                           !.next_list = merge_lists(cond_result.false_list,
                                                     loop_body.break_list)])
    /\ UNCHANGED <<semRest, src>>

\* _handle_ForStatement
handle_ForStatement ==
    /\ spc = "run"
    /\ Ends(<<"ForExpression", "BackpatchMarker", "Block">>)
    /\ LET cond_result == Top(2)
           body_start == Top(1)
           loop_body == Top(0)
           q1 == backpatch(ir, cond_result.true_list, body_start.quad_index)
           q2 == backpatch(q1, loop_body.next_list, cond_result.quad_index)
           q3 == backpatch(q2, loop_body.continue_list, cond_result.quad_index)
       IN /\ ir' = emit(q3, JQuad(IntV(cond_result.quad_index)))
          /\ Reduce(3, [ParseNode("ForStatement") EXCEPT
                           !.next_list = merge_lists(cond_result.false_list,
                                                     loop_body.break_list)])
    /\ UNCHANGED <<semRest, src>>

\* _handle_CirculateStatement
handle_CirculateStatement ==
    /\ spc = "run"
    /\ \/ Ends(<<"LoopMarker", "WhileStatement">>)
       \/ Ends(<<"LoopMarker", "ForStatement">>)
    /\ Reduce(2, Inherit("CirculateStatement", Top(0)))
    /\ loop_stack' = SubSeq(loop_stack, 1, Len(loop_stack) - 1)
    /\ UNCHANGED <<ir, start_list, loop_res, errors, current_function, functions,
                   temp_count, spc, src>>

\* _handle_LoopStatement
handle_LoopStatement ==
    /\ spc = "run"
    /\ Ends(<<"LoopMarker", "LoopExprMarker", "BackpatchMarker", "Block">>)
    /\ LET loop_start == Top(1)
           loop_body == Top(0)
           q1 == backpatch(ir, loop_body.next_list, loop_start.quad_index)
           q2 == backpatch(q1, loop_body.continue_list, loop_start.quad_index)
       IN /\ ir' = emit(q2, JQuad(IntV(loop_start.quad_index)))
          /\ Reduce(4, [ParseNode("LoopStatement") EXCEPT
                           !.next_list = loop_body.break_list,
                           !.place = loop_res[Len(loop_res)].place,
                           !.type_obj = loop_res[Len(loop_res)].type])
    /\ loop_stack' = SubSeq(loop_stack, 1, Len(loop_stack) - 1)
    /\ loop_res' = SubSeq(loop_res, 1, Len(loop_res) - 1)
    /\ UNCHANGED <<start_list, errors, current_function, functions, temp_count, spc,
                   src>>

\* _handle_BreakStatement: break ;
handle_BreakStatement ==
    /\ spc = "run"
    /\ StmtStart(sem_stack)
    /\ Lookahead = "break;"
    /\ Consume
    /\ IF loop_stack = <<>>
       THEN /\ ReportError
            /\ Push(ParseNode("BreakStatement"))
            /\ UNCHANGED <<ir, loop_res>>
       ELSE IF loop_res # <<>> /\ loop_res[Len(loop_res)].type # "none"
       THEN /\ ReportError
            /\ Push(ParseNode("BreakStatement"))
            /\ UNCHANGED <<ir, loop_res>>
       ELSE /\ loop_res' = IF loop_res = <<>> THEN loop_res
                           ELSE [loop_res EXCEPT ![Len(loop_res)].type = "unit"]
            /\ Push([ParseNode("BreakStatement") EXCEPT !.break_list = {next_quad}])
            /\ ir' = emit(ir, JQuad(NoneV))
            /\ UNCHANGED errors
    /\ UNCHANGED <<start_list, loop_stack, current_function, functions, temp_count, spc>>

\* _handle_ContinueStatement
handle_ContinueStatement ==
    /\ spc = "run"
    /\ StmtStart(sem_stack)
    /\ Lookahead = "continue;"
    /\ Consume
    /\ IF loop_stack = <<>>
       THEN /\ ReportError
            /\ Push(ParseNode("ContinueStatement"))
            /\ UNCHANGED ir
       ELSE /\ Push([ParseNode("ContinueStatement") EXCEPT
                        !.continue_list = {next_quad}])
            /\ ir' = emit(ir, JQuad(NoneV))
            /\ UNCHANGED errors
    /\ UNCHANGED <<start_list, loop_stack, loop_res, current_function, functions,
                   temp_count, spc>>


-----------------------------------------------------------------------------
(* MemController / AimCodeGenerator: the registers handed out while the      *)
(* quadruples of one function are turned into instructions, and the run of   *)
(* these instructions over a register file and the frame memory.  The        *)
(* function has a single block, so a position (function, block, q_idx) is    *)
(* its q_idx.  Register r of the pool is valregs[r]; 0 stands for $zero.     *)

MaxPool == 2
MaxQuads == 4

FuncName == "f"
Locals == <<"x", "y">>
Temps == {"t1"}
Literals == {1, 2}
BinOps == {"-"}

\* names assigned by the quadruples of b
Defined(b) == {b[i].result.s : i \in 1..Len(b)}

\* operands a quadruple after b can read: constants and assigned names
Readable(b) == {IntV(c) : c \in Literals} \cup {StrV(v) : v \in Defined(b)}

\* quadruples the translation can append to b: an assignment to a declared
\* variable, an operation whose result is a fresh temporary, or, as the step
\* of a for loop (`+ t, step, t`), an operation on a temporary and a
\* constant whose result is that temporary
QuadsAfter(b) ==
    {q \in {Quadruple("=", a, NoneV, StrV(v)) : a \in Readable(b), v \in Range(Locals)} :
        q.arg1 # q.result}
    \cup {Quadruple(op, a[1], a[2], StrV(t)) :
            op \in BinOps, a \in Readable(b) \X Readable(b), t \in Temps \ Defined(b)}
    \cup {Quadruple(op, StrV(v), IntV(c), StrV(v)) :
            op \in BinOps, v \in Temps \cap Defined(b), c \in Literals}
    \cup {Quadruple(op, IntV(c), StrV(v), StrV(v)) :
            op \in BinOps, v \in Temps \cap Defined(b), c \in Literals}

RECURSIVE Bodies(_)
Bodies(n) ==
    IF n = 0 THEN {<<>>}
    ELSE Bodies(n - 1) \cup
         UNION {{Append(b, q) : q \in QuadsAfter(b)} :
                    b \in {b \in Bodies(n - 1) : Len(b) = n - 1}}

\* the quadruples of a function that returns no value
FunctionQuads == {b \o <<Quadruple("RETURN", NoneV, NoneV, StrV(RetReg))>> :
                    b \in Bodies(MaxQuads) \ {<<>>}}

\* the symbols of the scope of the function emitted here: its declared
\* variables, no parameters
LocalScope == [k \in 1..Len(Locals) |-> [name |-> Locals[k], kind |-> "var"]]

\* func_blocks of a program of this one function
OneFunction == {<<[name |-> FuncName, scope |-> LocalScope, quads |-> qs]>> :
                    qs \in FunctionQuads}

\* the quadruples of the function being emitted
gen_quads == gen_prog[gen_fn].quads

\* FunctionStack.build_frame, lines 80-94: the loop over the symbols of the
\* scope from the k-th on; fr holds param_num, local_num, params, local_vars
RECURSIVE ScanScope(_, _, _)
ScanScope(scope, k, fr) ==
    IF k > Len(scope) THEN fr
    ELSE IF scope[k].kind = "param"
    THEN ScanScope(scope, k + 1,
            [fr EXCEPT !.param_num = @ + 1,
                       !.params = Append(@, [name |-> scope[k].name,
                            offset |-> -4 * ((fr.param_num + 1) + 1) + (-4)])])
    ELSE ScanScope(scope, k + 1,
            [fr EXCEPT !.local_num = @ + 1,
                       !.local_vars = Append(@, [name |-> scope[k].name,
                            offset |-> -4 * (fr.param_num + 1)
                                       - 4 * ((fr.local_num + 1) + 1) + (-4),
                            in_memory |-> FALSE])])

\* FunctionStackFrame.size
size(frame) == 4 + 4 * (frame.param_num + 1) + 4 * (frame.local_num + 1) + 8

\* FunctionStack.build_frame: the frame of func_name, built the ones
\* built before it
build_frame(func_name, scope, built) ==
    LET fr == ScanScope(scope, 1, [param_num |-> 0, local_num |-> 0,
                                   params |-> <<>>, local_vars |-> <<>>])
    IN  [name |-> func_name,
         old_sp |-> IF built = <<>> THEN 0 ELSE size(built[Len(built)]),
         return_addr |-> 0,
         param_num |-> fr.param_num, params |-> fr.params,
         local_num |-> fr.local_num, local_vars |-> fr.local_vars]

\* None as the result of get_var_offset
NoOffset == 0

SlotOf(lv, v) == {k \in 1..Len(lv) : lv[k].name = v}

get_var_offset(lv, v) ==
    IF SlotOf(lv, v) = {} THEN NoOffset ELSE lv[Min(SlotOf(lv, v))].offset

set_var_memflag(lv, v, flag) ==
    IF SlotOf(lv, v) = {} THEN lv
    ELSE [lv EXCEPT ![Min(SlotOf(lv, v))].in_memory = flag]

if_var_in_memory(lv, v) ==
    IF SlotOf(lv, v) = {} THEN FALSE ELSE lv[Min(SlotOf(lv, v))].in_memory

\* A position (function name, block index, quadruple index in the block).
\* Positions compare as Python tuples: the function names first, as strings.
\* Pos is a position in a function of one block.
Pos(f, q) == [f |-> f, b |-> 0, q |-> q]

NameRank == ("f" :> 1) @@ ("g" :> 2) @@ ("h" :> 3) @@ ("main" :> 4) @@ ("p" :> 5)

PosLess(a, c) ==
    \/ NameRank[a.f] < NameRank[c.f]
    \/ a.f = c.f /\ (a.b < c.b \/ (a.b = c.b /\ a.q < c.q))

PosLeq(a, c) == a = c \/ PosLess(a, c)

\* prog is the sequence of the functions, each [name, scope, quads], in the
\* order of func_blocks, which is here the order of their entries in the
\* stream.  EntryOf is the stream index of the first quadruple of function i.
RECURSIVE EntryOf(_, _)
EntryOf(prog, i) == IF i = 1 THEN 1 ELSE EntryOf(prog, i - 1) + Len(prog[i - 1].quads)

\* the slice of function i with the stream indices of its quadruples
SliceIn(prog, i) ==
    [k \in 1..Len(prog[i].quads) |-> WithIdx(EntryOf(prog, i) + k - 1, prog[i].quads[k])]

\* the position of the k-th quadruple of function i in func_blocks[name],
\* the blocks _block_split cuts the slice into
PosOfQuad(prog, i, k) ==
    LET starts == SortedSeq(BlockStarts(SliceIn(prog, i)))
        b == Max({j \in 1..Len(starts) : starts[j] <= k})
    IN  [f |-> prog[i].name, b |-> b - 1, q |-> k - starts[b]]

\* the positions of the program with their quadruples, in the order
\* generate_code and build_var_use_pos walk them
Layout(prog) ==
    Flatten([i \in 1..Len(prog) |->
                [k \in 1..Len(prog[i].quads) |->
                    [pos |-> PosOfQuad(prog, i, k), quad |-> prog[i].quads[k]]]])

\* a variant that finds a pair only when it is the oldest binding
BoundFirst(rv, f, v) == rv # <<>> /\ rv[1].func = f /\ rv[1].var = v

Bound(rv, f, v) == \E i \in 1..Len(rv) : rv[i].func = f /\ rv[i].var = v

RegOf(rv, f, v) == rv[CHOOSE i \in 1..Len(rv) : rv[i].func = f /\ rv[i].var = v].reg

\* the keys of var_use_pos in the order they were inserted
RECURSIVE FirstSeen(_, _)
FirstSeen(names, seen) ==
    IF names = <<>> THEN <<>>
    ELSE IF Head(names) \in seen THEN FirstSeen(Tail(names), seen)
    ELSE <<Head(names)>> \o FirstSeen(Tail(names), seen \cup {Head(names)})

\* lines 267-273: the operands of a quadruple that are strings
NamesIn(q) ==
    LET ops == SelectSeq(<<q.arg1, q.arg2, q.result>>, IsStr)
    IN  [j \in 1..Len(ops) |-> ops[j].s]

UseKeys(lay) == FirstSeen(Flatten([j \in 1..Len(lay) |-> NamesIn(lay[j].quad)]), {})

\* build_var_use_pos on the layout lay of the program: for every name, in
\* the order of the first mention, the list of the positions whose quadruple
\* names it
build_var_use_pos(lay) ==
    LET keys == UseKeys(lay)
    IN  [j \in 1..Len(keys) |->
            [var |-> keys[j],
             uses |-> LET at == SelectSeq(lay, LAMBDA e : keys[j] \in Range(NamesIn(e.quad)))
                      IN  [k \in 1..Len(at) |-> at[k].pos]]]

\* AimCodeGenerator.__init__, line 260
UsePosBuilt == \E lay \in {Layout(gen_prog)} : var_use_pos = build_var_use_pos(lay)

\* var_use_pos.get(v, [])
UsesOf(v) ==
    IF \E j \in 1..Len(var_use_pos) : var_use_pos[j].var = v
    THEN var_use_pos[CHOOSE j \in 1..Len(var_use_pos) : var_use_pos[j].var = v].uses
    ELSE <<>>

\* a variant that counts a use at the position itself
LiveAtOrAfter(rv, pos, j) ==
    /\ var_use_pos[j].var # RetReg
    /\ Bound(rv, pos.f, var_use_pos[j].var)
    /\ \E p \in Range(var_use_pos[j].uses) : p.f = pos.f /\ PosLeq(pos, p)

\* lines 151-156: the condition under which the j-th key of var_use_pos is live
LiveAfter(rv, pos, j) ==
    /\ var_use_pos[j].var # RetReg
    /\ Bound(rv, pos.f, var_use_pos[j].var)
    /\ \E p \in Range(var_use_pos[j].uses) : p.f = pos.f /\ PosLess(pos, p)

\* MemController.get_live_vars_after: the list live_vars
get_live_vars_after(rv, cur_pos) ==
    LET live == SelectSeq([j \in 1..Len(var_use_pos) |-> j],
                          LAMBDA j : LiveAfter(rv, cur_pos, j))
    IN  [k \in 1..Len(live) |-> var_use_pos[live[k]].var]

\* line 204: the uses of v at or behind cur_pos, as listed; next_use is the
\* first of them, None when there is none
UsesFrom(v, cur_pos) == SelectSeq(UsesOf(v), LAMBDA p : PosLeq(cur_pos, p))

\* lines 197-210: the first binding without a use from cur_pos on, else the
\* first of those whose next use is the farthest
Victim(rv, cur_pos) ==
    LET next_uses == [i \in 1..Len(rv) |-> UsesFrom(rv[i].var, cur_pos)]
        unused == {i \in 1..Len(rv) : next_uses[i] = <<>>}
        farthest == {i \in 1..Len(rv) :
                        \A j \in 1..Len(rv) : PosLeq(Head(next_uses[j]), Head(next_uses[i]))}
    IN  IF unused # {} THEN Min(unused) ELSE Min(farthest)

Li(rd, imm) == [ins |-> "li", rd |-> rd, rs |-> 0, rt |-> 0, imm |-> imm]
Sw(rs, off) == [ins |-> "sw", rd |-> 0, rs |-> rs, rt |-> 0, imm |-> off]
Lw(rd, off) == [ins |-> "lw", rd |-> rd, rs |-> 0, rt |-> 0, imm |-> off]
Alu(ins, rd, rs, rt) == [ins |-> ins, rd |-> rd, rs |-> rs, rt |-> rt, imm |-> 0]
Jr == [ins |-> "jr", rd |-> 0, rs |-> 0, rt |-> 0, imm |-> 0]

Put(mc, line) == [mc EXCEPT !.code = Append(@, line)]

RemoveAt(s, i) == SubSeq(s, 1, i - 1) \o SubSeq(s, i + 1, Len(s))

\* function_stack.get_frame(name): the number of the first frame of that
\* name, none when it has not been built
FramesOf(fs, name) == {k \in 1..Len(fs) : fs[k].name = name}

\* the local_vars of get_frame(name), the empty list without a frame
LocalVarsOf(fs, name) ==
    IF FramesOf(fs, name) = {} THEN <<>> ELSE fs[Min(FramesOf(fs, name))].local_vars

\* a variant that marks every slot of the frame
FlaggedAll(fs, name, v) ==
    IF FramesOf(fs, name) = {} THEN fs
    ELSE [fs EXCEPT ![Min(FramesOf(fs, name))].local_vars =
            [k \in 1..Len(@) |-> [@[k] EXCEPT !.in_memory = TRUE]]]

\* frame.set_var_memflag(v, True) on get_frame(name)
Flagged(fs, name, v) ==
    IF FramesOf(fs, name) = {} THEN fs
    ELSE [fs EXCEPT ![Min(FramesOf(fs, name))].local_vars = set_var_memflag(@, v, TRUE)]

\* MemController.alloc_reg.  mc holds rvalues, usedregs, the frames and the
\* code list; the register is RegOf(result.rvalues, f, v)
alloc_reg(mc, varname, cur_pos) ==
    LET func_name == cur_pos.f
        free_regs == {r \in 1..Len(valregs) : r \notin mc.usedregs}
        i == Victim(mc.rvalues, cur_pos)
        victim_var == mc.rvalues[i].var
        victim_func == mc.rvalues[i].func
        reg == mc.rvalues[i].reg
        offset == get_var_offset(LocalVarsOf(mc.frames, victim_func), victim_var)
        spill == /\ victim_func = func_name
                 /\ victim_var \in Range(get_live_vars_after(mc.rvalues, cur_pos))
                 /\ offset # NoOffset
    IN  IF Bound(mc.rvalues, func_name, varname) THEN mc
        ELSE IF free_regs # {}
        THEN [mc EXCEPT
                !.rvalues = Append(@, [func |-> func_name, var |-> varname,
                                       reg |-> Min(free_regs)]),
                !.usedregs = @ \cup {Min(free_regs)}]
        ELSE [mc EXCEPT
                !.rvalues = Append(RemoveAt(@, i),
                                   [func |-> func_name, var |-> varname, reg |-> reg]),
                !.usedregs = (@ \ {reg}) \cup {reg},
                !.frames = IF spill THEN Flagged(@, victim_func, victim_var) ELSE @,
                !.code = IF spill THEN Append(@, Sw(reg, offset)) ELSE @]

\* lines 399-400, 414-415, 448-449: the load of an operand marked in memory
Reload(mc, f, v, reg) ==
    IF if_var_in_memory(LocalVarsOf(mc.frames, f), v)
    THEN Put(mc, Lw(reg, get_var_offset(LocalVarsOf(mc.frames, f), v)))
    ELSE mc

\* op_info, lines 363-377
InstOf(op) == IF op = "+" THEN "add" ELSE IF op = "/" THEN "div" ELSE "sub"
Calc(op, a, b) == IF op = "+" THEN a + b ELSE IF op = "/" THEN a \div b ELSE a - b

\* the allocator state a quadruple starts from, its code list empty
Mc0 == [rvalues |-> rvalues, usedregs |-> usedregs, frames |-> frames, code |-> <<>>]

\* quad_to_code, `=` with a constant (lines 439-441): [mc, dest]
AssignConst(q, pos) ==
    LET m1 == alloc_reg(Mc0, q.result.s, pos)
        reg == RegOf(m1.rvalues, pos.f, q.result.s)
    IN  [mc |-> Put(m1, Li(reg, q.arg1.n)), dest |-> reg]

\* quad_to_code, `=` with a variable (lines 446-451)
AssignVar(q, pos) ==
    LET m1 == alloc_reg(Mc0, q.arg1.s, pos)
        reg == RegOf(m1.rvalues, pos.f, q.arg1.s)
        m2 == Reload(m1, pos.f, q.arg1.s, reg)
        m3 == alloc_reg(m2, q.result.s, pos)
        result_reg == RegOf(m3.rvalues, pos.f, q.result.s)
    IN  [mc |-> Put(m3, Alu("add", result_reg, reg, 0)), dest |-> result_reg]

\* quad_to_code, an operation on two constants (lines 379-386)
BinopConsts(q, pos) ==
    LET m1 == alloc_reg(Mc0, q.result.s, pos)
        result_reg == RegOf(m1.rvalues, pos.f, q.result.s)
    IN  [mc |-> Put(m1, Li(result_reg, Calc(q.op, q.arg1.n, q.arg2.n))),
         dest |-> result_reg]

\* quad_to_code, a variable and a constant (lines 379, 389-405)
BinopVarConst(q, pos) ==
    LET is_var_first == IsStr(q.arg1)
        var == IF is_var_first THEN q.arg1.s ELSE q.arg2.s
        const == IF is_var_first THEN q.arg2.n ELSE q.arg1.n
        m1 == alloc_reg(Mc0, q.result.s, pos)
        result_reg == RegOf(m1.rvalues, pos.f, q.result.s)
        m2 == alloc_reg(m1, var, pos)
        var_reg == RegOf(m2.rvalues, pos.f, var)
        m3 == Put(Reload(m2, pos.f, var, var_reg), Li(result_reg, const))
    IN  [mc |-> IF is_var_first
                THEN Put(m3, Alu(InstOf(q.op), result_reg, var_reg, result_reg))
                ELSE Put(m3, Alu(InstOf(q.op), result_reg, result_reg, var_reg)),
         dest |-> result_reg]

\* quad_to_code, two variables (lines 379, 408-417)
BinopVars(q, pos) ==
    LET m1 == alloc_reg(Mc0, q.result.s, pos)
        result_reg == RegOf(m1.rvalues, pos.f, q.result.s)
        m2 == alloc_reg(m1, q.arg1.s, pos)
        reg1 == RegOf(m2.rvalues, pos.f, q.arg1.s)
        m3 == alloc_reg(m2, q.arg2.s, pos)
        reg2 == RegOf(m3.rvalues, pos.f, q.arg2.s)
        m4 == Reload(Reload(m3, pos.f, q.arg1.s, reg1), pos.f, q.arg2.s, reg2)
    IN  [mc |-> Put(m4, Alu(InstOf(q.op), result_reg, reg1, reg2)),
         dest |-> result_reg]

\* the value of register r, $zero reads 0
Rd(rf, r) == IF r = 0 THEN 0 ELSE rf[r]

\* one instruction run on the machine m = [reg_file, frame_mem]
Step(m, i) ==
    CASE i.ins = "li" -> [m EXCEPT !.reg_file[i.rd] = i.imm]
      [] i.ins = "sw" -> [m EXCEPT !.frame_mem[i.imm] = Rd(m.reg_file, i.rs)]
      [] i.ins = "lw" -> [m EXCEPT !.reg_file[i.rd] = m.frame_mem[i.imm]]
      [] i.ins = "add" ->
            [m EXCEPT !.reg_file[i.rd] = Rd(m.reg_file, i.rs) + Rd(m.reg_file, i.rt)]
      [] i.ins = "sub" ->
            [m EXCEPT !.reg_file[i.rd] = Rd(m.reg_file, i.rs) - Rd(m.reg_file, i.rt)]
      [] OTHER -> m

RECURSIVE Exec(_, _)
Exec(m, lines) == IF lines = <<>> THEN m ELSE Exec(Step(m, Head(lines)), Tail(lines))

\* the value an operand has in the quadruple program itself
ValueOf(o) == IF IsInt(o) THEN o.n ELSE ideal[o.s]

NoWrite == [var |-> "", value |-> 0]

\* alloc_reg has not been called
NoAlloc == [func |-> "", var |-> "", bound |-> FALSE, evicted |-> {}, stored |-> <<>>]

\* generate_code, lines 517-520: the code of the quadruple at gpc is produced,
\* appended and run; the quadruple assigns val to its result
Emitted(quad_code, val) ==
    \E out \in {quad_code} :
    LET q == gen_quads[gpc + 1]
        m == Exec([reg_file |-> reg_file, frame_mem |-> frame_mem], out.mc.code)
    IN  /\ rvalues' = out.mc.rvalues
        /\ usedregs' = out.mc.usedregs
        /\ frames' = out.mc.frames
        /\ code' = out.mc.code
        /\ reg_file' = m.reg_file
        /\ frame_mem' = m.frame_mem
        /\ ideal' = (q.result.s :> val) @@ ideal
        /\ written' = [var |-> q.result.s, value |-> m.reg_file[out.dest]]
        /\ gpc' = gpc + 1
        /\ UNCHANGED <<gen_prog, gen_fn, var_use_pos, valregs, apc, last_alloc>>

\* generate_code, lines 501-508: the bindings the param quadruples left under
\* the keys param1, param2, ... get the names of the parameters
ParamKey(i) == <<"param1", "param2", "param3", "param4">>[i]

RECURSIVE Rebase(_, _, _, _)
Rebase(rv, func_name, params, i) ==
    IF i > Len(params) \/ i > 4 THEN rv
    ELSE LET keys == {k \in 1..Len(rv) : rv[k].func = ParamKey(i)}
             k == Min(keys)
             named == [func |-> func_name, var |-> params[i].name, reg |-> rv[k].reg]
             same == {j \in 1..Len(rv) :
                        rv[j].func = func_name /\ rv[j].var = params[i].name}
         IN  IF keys = {} THEN Rebase(rv, func_name, params, i + 1)
             ELSE Rebase(RemoveAt(IF same = {} THEN Append(rv, named)
                                  ELSE [rv EXCEPT ![Min(same)] = named], k),
                         func_name, params, i + 1)

\* generate_code, lines 495-508: the next function of func_blocks starts;
\* its frame is built and the parameter bindings are renamed
BeginFunction ==
    /\ gen_fn < Len(gen_prog)
    /\ gen_fn >= 1 => gpc = Len(gen_quads)
    /\ LET f == gen_prog[gen_fn + 1]
           frame == build_frame(f.name, f.scope, frames)
       IN  /\ frames' = Append(frames, frame)
           /\ rvalues' = Rebase(rvalues, f.name, frame.params, 1)
    /\ gen_fn' = gen_fn + 1
    /\ gpc' = 0
    /\ code' = <<>>
    /\ UNCHANGED <<gen_prog, var_use_pos, valregs, usedregs, reg_file, frame_mem, ideal, written,
                   apc, last_alloc>>

AtQuad(ops) == gen_fn >= 1 /\ gpc < Len(gen_quads) /\ gen_quads[gpc + 1].op \in ops

QuadAssignConst ==
    /\ AtQuad({"="})
    /\ IsInt(gen_quads[gpc + 1].arg1)
    /\ Emitted(AssignConst(gen_quads[gpc + 1], Pos(gen_prog[gen_fn].name, gpc)), gen_quads[gpc + 1].arg1.n)

QuadAssignVar ==
    /\ AtQuad({"="})
    /\ IsStr(gen_quads[gpc + 1].arg1)
    /\ Emitted(AssignVar(gen_quads[gpc + 1], Pos(gen_prog[gen_fn].name, gpc)), ValueOf(gen_quads[gpc + 1].arg1))

QuadBinopConsts ==
    LET q == gen_quads[gpc + 1]
    IN  /\ AtQuad(BinOps)
        /\ IsInt(q.arg1) /\ IsInt(q.arg2)
        /\ Emitted(BinopConsts(q, Pos(gen_prog[gen_fn].name, gpc)), Calc(q.op, q.arg1.n, q.arg2.n))

QuadBinopVarConst ==
    LET q == gen_quads[gpc + 1]
    IN  /\ AtQuad(BinOps)
        /\ IsStr(q.arg1) # IsStr(q.arg2)
        /\ Emitted(BinopVarConst(q, Pos(gen_prog[gen_fn].name, gpc)), Calc(q.op, ValueOf(q.arg1), ValueOf(q.arg2)))

QuadBinopVars ==
    LET q == gen_quads[gpc + 1]
    IN  /\ AtQuad(BinOps)
        /\ IsStr(q.arg1) /\ IsStr(q.arg2)
        /\ Emitted(BinopVars(q, Pos(gen_prog[gen_fn].name, gpc)), Calc(q.op, ValueOf(q.arg1), ValueOf(q.arg2)))

\* quad_to_code, RETURN without a value outside main (lines 456-475)
QuadReturn ==
    /\ AtQuad({"RETURN"})
    /\ gen_prog[gen_fn].name # "main"
    /\ gen_quads[gpc + 1].arg1 = NoneV
    /\ code' = <<Jr>>
    /\ gpc' = gpc + 1
    /\ UNCHANGED <<gen_prog, gen_fn, var_use_pos, valregs, rvalues, usedregs, frames, reg_file,
                   frame_mem, ideal, written, apc, last_alloc>>

-----------------------------------------------------------------------------
(* Emission of a program of two functions, main and one it may call, step    *)
(* by step of quad_to_code: every call of alloc_reg is a step of its own.    *)
MaxMain == 4
MaxCallee == 3

\* self.spreg, self.rareg and self.retregs[0]; the pool registers are 1, 2, ...
spreg == -1
rareg == -2
retreg == -3

Addi(rd, rs, imm) == [ins |-> "addi", rd |-> rd, rs |-> rs, rt |-> 0, imm |-> imm]
\* jal to the function of that number in func_blocks, 0 when it is not there
Jal(k) == [ins |-> "jal", rd |-> 0, rs |-> 0, rt |-> 0, imm |-> k]
Syscall == [ins |-> "syscall", rd |-> 0, rs |-> 0, rt |-> 0, imm |-> 0]

MainScope == <<[name |-> "x", kind |-> "var"], [name |-> "y", kind |-> "var"]>>
CalleeScope == <<[name |-> "a", kind |-> "param"], [name |-> "x", kind |-> "var"],
                 [name |-> "y", kind |-> "var"]>>

\* names assigned by the quadruples of b
AssignedBy(b) == {b[i].result.s : i \in {i \in 1..Len(b) : b[i].op = "="}}

\* quadruples that can follow b in a function: a constant or an initialised
\* name assigned to one of `names`, or a call of `callee`
EmitQuadsAfter(b, names, params, callee) ==
    {Quadruple("=", IntV(1), NoneV, StrV(v)) : v \in names}
    \cup {Quadruple("=", StrV(p[1]), NoneV, StrV(p[2])) :
            p \in {p \in (AssignedBy(b) \cup params) \X names : p[1] # p[2]}}
    \cup {CallQuad(g) : g \in callee}

RECURSIVE EmitBodies(_, _, _, _)
EmitBodies(n, names, params, callee) ==
    IF n = 0 THEN {<<>>}
    ELSE LET shorter == EmitBodies(n - 1, names, params, callee)
         IN  shorter \cup
             UNION {{Append(b, q) : q \in EmitQuadsAfter(b, names, params, callee)} :
                        b \in {b \in shorter : Len(b) = n - 1}}

\* func_blocks in the emission order main, callee; one of the two functions
\* is short
TwoFunctions(g) ==
    LET Ret == <<Quadruple("RETURN", NoneV, NoneV, StrV(RetReg))>>
        Prog(m, c) == <<[name |-> "main", scope |-> MainScope, quads |-> m \o Ret],
                        [name |-> g, scope |-> CalleeScope, quads |-> c \o Ret]>>
    IN  {Prog(m, c) : m \in EmitBodies(MaxMain, {"x", "y", "t1"}, {}, {g}),
                      c \in EmitBodies(0, {"a", "x", "y"}, {"a"}, {})}
        \cup {Prog(m, c) : m \in EmitBodies(1, {"x", "y", "t1"}, {}, {g}),
                           c \in EmitBodies(MaxCallee, {"a", "x", "y"}, {"a"}, {})}

cur_pos == Pos(gen_prog[gen_fn].name, gpc)

\* the steps of quad_to_code for an assignment (lines 438-451): calls of
\* alloc_reg, the load of an operand kept in memory, the instruction
Steps(q) ==
    IF IsInt(q.arg1)
    THEN <<[k |-> "alloc", v |-> q.result.s], [k |-> "emit", v |-> ""]>>
    ELSE <<[k |-> "alloc", v |-> q.arg1.s], [k |-> "load", v |-> q.arg1.s],
           [k |-> "alloc", v |-> q.result.s], [k |-> "emit", v |-> ""]>>

AtStep(kind) == AtQuad({"="}) /\ Steps(gen_quads[gpc + 1])[apc + 1].k = kind

\* the allocator state and the code list of the running quad_to_code
McNow == [Mc0 EXCEPT !.code = IF apc = 0 THEN <<>> ELSE code]

\* self.mem_controller.alloc_reg(varname, cur_pos, code=code)
CallAllocReg ==
    /\ AtStep("alloc")
    /\ LET varname == Steps(gen_quads[gpc + 1])[apc + 1].v
           m == alloc_reg(McNow, varname, cur_pos)
       IN  /\ rvalues' = m.rvalues
           /\ usedregs' = m.usedregs
           /\ frames' = m.frames
           /\ code' = m.code
           /\ last_alloc' = [func |-> cur_pos.f, var |-> varname,
                             bound |-> Bound(rvalues, cur_pos.f, varname),
                             evicted |-> Range(rvalues) \ Range(m.rvalues),
                             stored |-> SubSeq(m.code, Len(McNow.code) + 1, Len(m.code))]
    /\ apc' = apc + 1
    /\ UNCHANGED <<gen_prog, gen_fn, var_use_pos, valregs, reg_file, frame_mem, ideal,
                   written, gpc>>

\* lines 447-448: the operand is loaded when its slot is marked in memory
LoadOperand ==
    /\ AtStep("load")
    /\ LET arg1 == gen_quads[gpc + 1].arg1.s
           m == Reload(McNow, cur_pos.f, arg1, RegOf(rvalues, cur_pos.f, arg1))
       IN  code' = m.code
    /\ apc' = apc + 1
    /\ UNCHANGED <<gen_prog, gen_fn, var_use_pos, valregs, rvalues, usedregs, frames,
                   reg_file, frame_mem, ideal, written, gpc, last_alloc>>

\* lines 440 and 450: the li or add of the assignment.  reg was read before
\* the result was allocated: when the operand has lost its register since,
\* the result has it
EmitAssign ==
    /\ AtStep("emit")
    /\ LET q == gen_quads[gpc + 1]
           result_reg == RegOf(rvalues, cur_pos.f, q.result.s)
           reg == IF Bound(rvalues, cur_pos.f, q.arg1.s)
                  THEN RegOf(rvalues, cur_pos.f, q.arg1.s) ELSE result_reg
       IN  code' = Append(code, IF IsInt(q.arg1) THEN Li(result_reg, q.arg1.n)
                                ELSE Alu("add", result_reg, reg, 0))
    /\ gpc' = gpc + 1
    /\ apc' = 0
    /\ UNCHANGED <<gen_prog, gen_fn, var_use_pos, valregs, rvalues, usedregs, frames,
                   reg_file, frame_mem, ideal, written, last_alloc>>

\* lines 335-341 and 355-359: the live variables with a slot in the frame, in
\* the order of live_vars
SavedVars(frame, live_vars) ==
    SelectSeq(live_vars, LAMBDA var : get_var_offset(frame.local_vars, var) # NoOffset)

\* a variant that reloads the saved variables before the stack pointer is
\* restored
CallCodeEarlyReload(frame, rv, func_name, live_vars, callee) ==
    LET saved == SavedVars(frame, live_vars)
        targets == {k \in 1..Len(gen_prog) : gen_prog[k].name = callee}
    IN  [i \in 1..Len(saved) |->
            Sw(RegOf(rv, func_name, saved[i]), get_var_offset(frame.local_vars, saved[i]))]
        \o <<Sw(spreg, -size(frame)), Addi(spreg, spreg, -size(frame)), Sw(rareg, -4)>>
        \o <<Jal(IF targets = {} THEN 0 ELSE Min(targets))>>
        \o <<Lw(rareg, -4)>>
        \o [i \in 1..Len(saved) |->
            Lw(RegOf(rv, func_name, saved[i]), get_var_offset(frame.local_vars, saved[i]))]
        \o <<Addi(spreg, spreg, size(frame))>>

\* quad_to_code, op == 'call' (lines 332-359): the code list.  frame is the
\* frame of the function that holds the call
CallCode(frame, rv, func_name, live_vars, callee) ==
    LET saved == SavedVars(frame, live_vars)
        targets == {k \in 1..Len(gen_prog) : gen_prog[k].name = callee}
    IN  [i \in 1..Len(saved) |->
            Sw(RegOf(rv, func_name, saved[i]), get_var_offset(frame.local_vars, saved[i]))]
        \o <<Sw(spreg, -size(frame)), Addi(spreg, spreg, -size(frame)), Sw(rareg, -4)>>
        \o <<Jal(IF targets = {} THEN 0 ELSE Min(targets))>>
        \o <<Lw(rareg, -4)>>
        \o <<Addi(spreg, spreg, size(frame))>>
        \o [i \in 1..Len(saved) |->
            Lw(RegOf(rv, func_name, saved[i]), get_var_offset(frame.local_vars, saved[i]))]

\* a variant that takes the frame the callee will get
QuadCallCalleeFrame ==
    /\ AtQuad({"call"})
    /\ LET func_name == cur_pos.f
           callee == gen_quads[gpc + 1].arg1.s
           k == CHOOSE k \in 1..Len(gen_prog) : gen_prog[k].name = callee
           frame == build_frame(callee, gen_prog[k].scope, frames)
       IN  code' = CallCode(frame, rvalues, func_name,
                            get_live_vars_after(rvalues, cur_pos), callee)
    /\ gpc' = gpc + 1
    /\ UNCHANGED <<gen_prog, gen_fn, var_use_pos, valregs, rvalues, usedregs, frames,
                   reg_file, frame_mem, ideal, written, apc, last_alloc>>

QuadCall ==
    /\ AtQuad({"call"})
    /\ LET func_name == cur_pos.f
           frame == frames[Min(FramesOf(frames, func_name))]
       IN  code' = CallCode(frame, rvalues, func_name,
                            get_live_vars_after(rvalues, cur_pos),
                            gen_quads[gpc + 1].arg1.s)
    /\ gpc' = gpc + 1
    /\ UNCHANGED <<gen_prog, gen_fn, var_use_pos, valregs, rvalues, usedregs, frames,
                   reg_file, frame_mem, ideal, written, apc, last_alloc>>

\* quad_to_code, RETURN in main (lines 457-460)
QuadReturnMain ==
    /\ AtQuad({"RETURN"})
    /\ gen_prog[gen_fn].name = "main"
    /\ code' = <<Li(retreg, 10), Syscall>>
    /\ gpc' = gpc + 1
    /\ UNCHANGED <<gen_prog, gen_fn, var_use_pos, valregs, rvalues, usedregs, frames,
                   reg_file, frame_mem, ideal, written, apc, last_alloc>>

-----------------------------------------------------------------------------
(* generate_code on programs with param, call, jump, division and array      *)
(* quadruples: one step per quadruple; an exception ends the run.            *)
MaxUnit == 4
MaxFault == 2

\* mem_controller.pararegs: $a0..$a3
pararegs == <<-4, -5, -6, -7>>

NotRaised == [kind |-> "none", error_code |-> 0]
Raise(kind, error_code) == [kind |-> kind, error_code |-> error_code]

\* ErrorCode, the members the generator names
GENERAL_ERROR == 1
PARAM_LIMIT == 20481

\* the result of a param quadruple: the text "param_" followed by the decimal
\* digits of n, by nothing when n is NoDigits
NoDigits == -1
ParamResult(n) ==
    [k |-> "str", s |-> IF n = NoDigits THEN "param_" ELSE "param_" \o ToString(n),
     n |-> n]

RECURSIVE Digits(_)
Digits(n) == IF n < 10 THEN <<n>> ELSE Append(Digits(n \div 10), n % 10)

\* line 298: the first digit character of the result, NoDigits for None
param_num(result) == IF result.n = NoDigits THEN NoDigits ELSE Head(Digits(result.n))

\* rvalues[(func, var)] = reg
Bind(rv, func, var, reg) ==
    LET same == {j \in 1..Len(rv) : rv[j].func = func /\ rv[j].var = var}
        b == [func |-> func, var |-> var, reg |-> reg]
    IN  IF same = {} THEN Append(rv, b) ELSE [rv EXCEPT ![Min(same)] = b]

\* quad_to_code, op == 'param' (lines 296-329): [mc, raised].  The member
\* ErrorCode.InvalidParamRegisterFormat of line 304 does not exist, so the
\* raise of line 302 ends in an AttributeError
ParamCode(q, pos) ==
    LET num == param_num(q.result)
        target_reg == pararegs[num]
        m1 == alloc_reg(Mc0, q.arg1.s, pos)
        src_reg == RegOf(m1.rvalues, pos.f, q.arg1.s)
    IN  IF q.result = NoneV
        THEN [mc |-> Mc0, raised |-> Raise("TypeError", 0)]
        ELSE IF num = NoDigits \/ num < 1
        THEN [mc |-> Mc0, raised |-> Raise("AttributeError", 0)]
        ELSE IF num > 4
        THEN [mc |-> Mc0, raised |-> Raise("ErrorException", PARAM_LIMIT)]
        ELSE IF IsStr(q.arg1)
        THEN [mc |-> Put([m1 EXCEPT !.rvalues = Bind(@, ParamKey(num), q.arg1.s, target_reg)],
                         Alu("add", target_reg, src_reg, 0)),
              raised |-> NotRaised]
        ELSE IF IsInt(q.arg1)
        THEN [mc |-> Put([Mc0 EXCEPT !.rvalues =
                                Bind(@, ParamKey(num), ToString(q.arg1.n), target_reg)],
                         Li(target_reg, q.arg1.n)),
              raised |-> NotRaised]
        ELSE [mc |-> Mc0, raised |-> Raise("ErrorException", GENERAL_ERROR)]

\* BlockController.get_scope_by_index (lines 47-70) on the entries and blocks
\* of prog: [func, block], NoName and NoBlock for None
NoName == ""
NoBlock == -1

\* a variant that names the first block of the function whatever the index
get_scope_first_block(prog, index) ==
    LET holders == {i \in 1..Len(prog) :
                        /\ EntryOf(prog, i) <= index
                        /\ i < Len(prog) => index < EntryOf(prog, i + 1)}
    IN  IF holders = {} THEN [func |-> NoName, block |-> NoBlock]
        ELSE [func |-> prog[Min(holders)].name, block |-> 0]

get_scope_by_index(prog, index) ==
    LET holders == {i \in 1..Len(prog) :
                        /\ EntryOf(prog, i) <= index
                        /\ i < Len(prog) => index < EntryOf(prog, i + 1)}
        i == Min(holders)
        blocks == BlockSplit(SliceIn(prog, i))
        holding == {b \in 1..Len(blocks) :
                        \E k \in 1..Len(blocks[b]) : blocks[b][k].idx = index}
    IN  IF holders = {} THEN [func |-> NoName, block |-> NoBlock]
        ELSE IF holding = {} THEN [func |-> prog[i].name, block |-> NoBlock]
        ELSE [func |-> prog[i].name, block |-> Min(holding) - 1]

FnNumber(prog, name) == Min({i \in 1..Len(prog) : prog[i].name = name})

\* create_label(func_name, block_idx) as the function's number and the block
LabelLine(fn, b) == [ins |-> "label", rd |-> 0, rs |-> 0, rt |-> b, imm |-> fn]
FuncLabel(fn) == [ins |-> "func", rd |-> 0, rs |-> 0, rt |-> 0, imm |-> fn]
J(fn, b) == [ins |-> "j", rd |-> 0, rs |-> 0, rt |-> b, imm |-> fn]
Bne(rs, fn, b) == [ins |-> "bne", rd |-> 0, rs |-> rs, rt |-> b, imm |-> fn]

\* lines 424-426 and 432-434: the lookup of the target; comparing an index
\* None with the entries is a TypeError
JumpTarget(q) ==
    LET scope == get_scope_by_index(gen_prog, q.result.n)
    IN  IF ~IsInt(q.result) THEN [scope |-> scope, raised |-> Raise("TypeError", 0)]
        ELSE IF scope.func = NoName \/ scope.block = NoBlock
        THEN [scope |-> scope, raised |-> Raise("ValueError", 0)]
        ELSE [scope |-> scope, raised |-> NotRaised]

\* quad_to_code, op == 'j' (lines 423-428)
JCode(q, pos) ==
    LET t == JumpTarget(q)
    IN  [mc |-> IF t.raised = NotRaised
                THEN Put(Mc0, J(FnNumber(gen_prog, t.scope.func), t.scope.block))
                ELSE Mc0,
         raised |-> t.raised]

\* quad_to_code, op == 'jnz' (lines 430-435)
JnzCode(q, pos) ==
    LET m1 == alloc_reg(Mc0, q.arg1.s, pos)
        reg == RegOf(m1.rvalues, pos.f, q.arg1.s)
        t == JumpTarget(q)
    IN  [mc |-> IF t.raised = NotRaised
                THEN Put(m1, Bne(reg, FnNumber(gen_prog, t.scope.func), t.scope.block))
                ELSE m1,
         raised |-> t.raised]

\* a variant that tests the divisor of two constants only
ZeroCheckConsts(q) == q.op = "/" /\ IsInt(q.arg1) /\ IsInt(q.arg2) /\ q.arg2.n = 0

\* lines 384 and 392: the test of the divisor
ZeroCheck(q) ==
    /\ q.op = "/"
    /\ \/ IsInt(q.arg1) /\ IsInt(q.arg2) /\ q.arg2.n = 0
       \/ IsStr(q.arg1) /\ IsInt(q.arg2) /\ q.arg2.n = 0

\* quad_to_code, the arithmetic operators (lines 360-421): the result gets
\* its register at line 379, before the operands are looked at
BinopCode(q, pos) ==
    LET m1 == alloc_reg(Mc0, q.result.s, pos)
    IN  IF ZeroCheck(q) THEN [mc |-> m1, raised |-> Raise("ValueError", 0)]
        ELSE IF IsInt(q.arg1) /\ IsInt(q.arg2)
        THEN [mc |-> BinopConsts(q, pos).mc, raised |-> NotRaised]
        ELSE IF (IsStr(q.arg1) /\ IsInt(q.arg2)) \/ (IsInt(q.arg1) /\ IsStr(q.arg2))
        THEN [mc |-> BinopVarConst(q, pos).mc, raised |-> NotRaised]
        ELSE IF IsStr(q.arg1) /\ IsStr(q.arg2)
        THEN [mc |-> BinopVars(q, pos).mc, raised |-> NotRaised]
        ELSE [mc |-> m1, raised |-> Raise("ValueError", 0)]

\* quad_to_code, op == '=' (lines 437-452)
AssignCode(q, pos) ==
    LET m1 == alloc_reg(Mc0, q.result.s, pos)
    IN  IF IsInt(q.arg1) THEN [mc |-> AssignConst(q, pos).mc, raised |-> NotRaised]
        ELSE IF IsStr(q.arg1) /\ q.arg1.s = RetReg
        THEN [mc |-> Put(m1, Alu("add", RegOf(m1.rvalues, pos.f, q.result.s), retreg, 0)),
              raised |-> NotRaised]
        ELSE IF IsStr(q.arg1) THEN [mc |-> AssignVar(q, pos).mc, raised |-> NotRaised]
        ELSE [mc |-> Mc0, raised |-> Raise("ValueError", 0)]

\* quad_to_code, op == 'RETURN' (lines 455-475)
ReturnCode(q, pos) ==
    LET m1 == alloc_reg(Mc0, q.arg1.s, pos)
    IN  IF pos.f = "main" THEN [mc |-> Put(Put(Mc0, Li(retreg, 10)), Syscall), raised |-> NotRaised]
        ELSE IF IsStr(q.arg1)
        THEN [mc |-> Put(Put(m1, Alu("add", retreg, RegOf(m1.rvalues, pos.f, q.arg1.s), 0)), Jr),
              raised |-> NotRaised]
        ELSE IF IsInt(q.arg1)
        THEN [mc |-> Put(Put(Mc0, Li(retreg, q.arg1.n)), Jr), raised |-> NotRaised]
        ELSE [mc |-> Put(Mc0, Jr), raised |-> NotRaised]

\* quad_to_code, op == 'call' (lines 332-359)
CallQuadCode(q, pos) ==
    [mc |-> [Mc0 EXCEPT !.code =
                CallCode(frames[Min(FramesOf(frames, pos.f))], rvalues, pos.f,
                         get_live_vars_after(rvalues, pos), q.arg1.s)],
     raised |-> NotRaised]

\* quad_to_code on an operator none of its branches names: the empty list
\* of line 477
NoBranchCode(q, pos) == [mc |-> Mc0, raised |-> NotRaised]

\* the operators quad_to_code has a branch for
BranchOps == {"param", "call", "+", "-", "/", "j", "jnz", "=", "RETURN"}

quad_to_code(q, pos) ==
    CASE q.op = "param" -> ParamCode(q, pos)
      [] q.op = "call" -> CallQuadCode(q, pos)
      [] q.op \in {"+", "-", "/"} -> BinopCode(q, pos)
      [] q.op = "j" -> JCode(q, pos)
      [] q.op = "jnz" -> JnzCode(q, pos)
      [] q.op = "=" -> AssignCode(q, pos)
      [] q.op = "RETURN" -> ReturnCode(q, pos)
      [] OTHER -> NoBranchCode(q, pos)

quad_pos == PosOfQuad(gen_prog, gen_fn, gpc + 1)

\* the label generate_code appends when the quadruple behind number k opens
\* a block (lines 511-514)
NextLabel(k) ==
    IF k < Len(gen_quads) /\ PosOfQuad(gen_prog, gen_fn, k + 1).q = 0
    THEN <<LabelLine(gen_fn, PosOfQuad(gen_prog, gen_fn, k + 1).b)>>
    ELSE <<>>

\* generate_code, lines 491-514: the next function starts
BeginFunctionLabel ==
    /\ raised = NotRaised
    /\ BeginFunction
    /\ asm_out' = asm_out \o <<FuncLabel(gen_fn + 1)>>
                  \o IF gen_prog[gen_fn + 1].quads = <<>> THEN <<>>
                     ELSE <<LabelLine(gen_fn + 1, 0)>>
    /\ UNCHANGED raised

\* generate_code, lines 517-520, up to the next call of quad_to_code: the
\* lines are appended when quad_to_code returns
Translate ==
    /\ raised = NotRaised
    /\ gen_fn >= 1
    /\ gpc < Len(gen_quads)
    /\ \E pos \in {quad_pos} : \E r \in {quad_to_code(gen_quads[gpc + 1], pos)} :
        /\ rvalues' = r.mc.rvalues
        /\ usedregs' = r.mc.usedregs
        /\ frames' = r.mc.frames
        /\ raised' = r.raised
        /\ code' = IF r.raised = NotRaised THEN r.mc.code ELSE <<>>
        /\ asm_out' = IF r.raised = NotRaised
                      THEN asm_out \o r.mc.code \o NextLabel(gpc + 1)
                      ELSE asm_out
        /\ gpc' = IF r.raised = NotRaised THEN gpc + 1 ELSE gpc
    /\ UNCHANGED <<gen_prog, gen_fn, var_use_pos, valregs, reg_file, frame_mem, ideal,
                   written, apc, last_alloc>>

GScope == <<[name |-> "a", kind |-> "param"], [name |-> "x", kind |-> "var"]>>
HScope == <<[name |-> "b", kind |-> "param"]>>

ParamQuad(arg, n) == Quadruple("param", arg, NoneV, ParamResult(n))
CallWith(f, n) == Quadruple("call", StrV(f), IntV(n), NoneV)

\* quadruples of calls and assignments
CallShapes ==
    {Quadruple("=", IntV(1), NoneV, StrV(v)) : v \in {"x", "y"}}
    \cup {ParamQuad(a, 1) : a \in {StrV("x"), IntV(1)}}
    \cup {CallWith(f, 1) : f \in {"g", "h"}}

PastEnd == 99
Targets == {NoneV, IntV(0), IntV(1), IntV(2), IntV(3), IntV(4), IntV(PastEnd)}

\* quadruples of every operator, the ones that raise among them
FaultShapes ==
    {Quadruple("=", IntV(1), NoneV, StrV("x")), Quadruple("=", StrV("x"), NoneV, StrV("y")),
     Quadruple("=", NoneV, NoneV, StrV("x"))}
    \cup {Quadruple("/", a, b, StrV("y")) :
            a \in {StrV("x"), IntV(0), IntV(2)}, b \in {StrV("x"), IntV(0), IntV(2)}}
    \cup {ParamQuad(StrV("x"), n) : n \in {NoDigits, 0, 1, 4, 5, 10, 12}}
    \cup {ParamQuad(IntV(1), 2), ParamQuad(NoneV, 1),
          Quadruple("param", IntV(1), NoneV, NoneV)}
    \cup {Quadruple("j", NoneV, NoneV, t) : t \in Targets}
    \cup {Quadruple("jnz", StrV("x"), NoneV, t) : t \in Targets}
    \cup {Quadruple("[]=", StrV("x"), IntV(0), StrV("y")),
          Quadruple("=[]", IntV(1), IntV(0), StrV("x"))}

\* main, g(a) and h(b), in the order of their entries
ThreeFunctions ==
    LET Ret(v) == <<Quadruple("RETURN", v, NoneV, StrV(RetReg))>>
        Prog(m) == <<[name |-> "main", scope |-> MainScope, quads |-> m \o Ret(NoneV)],
                     [name |-> "g", scope |-> GScope,
                      quads |-> <<Quadruple("=", StrV("a"), NoneV, StrV("x"))>> \o Ret(NoneV)],
                     [name |-> "h", scope |-> HScope, quads |-> Ret(StrV("b"))]>>
    IN  {Prog(m) : m \in SeqsOver({<<q>> : q \in CallShapes}, MaxUnit)
                            \cup SeqsOver({<<q>> : q \in FaultShapes}, MaxFault)}

-----------------------------------------------------------------------------
(* Specifications: each stage runs on its own, the other ones idle           *)

vars == <<blockVars, semVars, genVars, outVars>>

BlockIdle ==
    /\ quads = <<>>
    /\ func_entries = <<>>
    /\ func_vars = <<>>
    /\ func_blocks = <<>>
    /\ call_graph = <<>>
    /\ order = <<>>
    /\ visited = {}
    /\ dfs_stack = <<>>
    /\ func_cfgs = <<>>
    /\ in_sets = <<>>
    /\ out_sets = <<>>
    /\ live_k = 0
    /\ sweeps = 0
    /\ bpc = "idle"

SemIdle ==
    /\ ir = <<>>
    /\ sem_stack = <<>>
    /\ start_list = {}
    /\ loop_stack = <<>>
    /\ loop_res = <<>>
    /\ errors = FALSE
    /\ current_function = NoFunction
    /\ functions = <<>>
    /\ temp_count = 0
    /\ src = <<>>

GenIdle ==
    /\ gen_prog = <<>>
    /\ var_use_pos = <<>>
    /\ gen_fn = 0
    /\ valregs = <<>>
    /\ rvalues = <<>>
    /\ usedregs = {}
    /\ frames = <<>>
    /\ code = <<>>
    /\ reg_file = <<>>
    /\ frame_mem = <<>>
    /\ ideal = <<>>
    /\ written = NoWrite
    /\ gpc = 0
    /\ apc = 0
    /\ last_alloc = NoAlloc

\* nothing has been appended and nothing raised
OutIdle ==
    /\ asm_out = <<>>
    /\ raised = NotRaised

InitBlock ==
    /\ InitStreams
    /\ func_vars = [f \in DOMAIN func_entries |-> ValidVars[f]]
    /\ func_blocks = <<>>
    /\ call_graph = <<>>
    /\ order = <<>>
    /\ visited = {}
    /\ dfs_stack = <<>>
    /\ func_cfgs = <<>>
    /\ in_sets = <<>>
    /\ out_sets = <<>>
    /\ live_k = 0
    /\ sweeps = 0
    /\ bpc = "split"
    /\ SemIdle
    /\ spc = "idle"
    /\ GenIdle
    /\ OutIdle

NextBlock ==
    \/ SplitAllFunctions /\ UNCHANGED <<semVars, genVars, outVars>>
    \/ VisitRoot /\ UNCHANGED <<semVars, genVars, outVars>>
    \/ VisitCaller /\ UNCHANGED <<semVars, genVars, outVars>>
    \/ VisitReturn /\ UNCHANGED <<semVars, genVars, outVars>>
    \/ BuildCfgs /\ UNCHANGED <<semVars, genVars, outVars>>
    \/ LiveSweep /\ UNCHANGED <<semVars, genVars, outVars>>
    \/ AnalysisDone /\ UNCHANGED <<semVars, genVars, outVars>>

SpecBlock == InitBlock /\ [][NextBlock]_vars

\* Programs of up to three functions that only call, with any call graph:
\* _split_all_functions reads the call quadruples of whatever stream it is
\* given, so a function may call itself and functions declared after it.
AnyCallTables(d) == [1..Len(d) -> SUBSET Range(d)]

InitCalls ==
    /\ \E d \in Decls : \E c \in AnyCallTables(d) :
        /\ quads = Indexed(CallStream(d, c, 1))
        /\ func_entries = [f \in Range(d) |->
                              CallEntry(d, c, CHOOSE i \in 1..Len(d) : d[i] = f)]
    /\ func_vars = [f \in DOMAIN func_entries |-> ValidVars[f]]
    /\ func_blocks = <<>>
    /\ call_graph = <<>>
    /\ order = <<>>
    /\ visited = {}
    /\ dfs_stack = <<>>
    /\ func_cfgs = <<>>
    /\ in_sets = <<>>
    /\ out_sets = <<>>
    /\ live_k = 0
    /\ sweeps = 0
    /\ bpc = "split"
    /\ SemIdle
    /\ spc = "idle"
    /\ GenIdle
    /\ OutIdle

\* lines 190-201 are one sequential run: while a call of visit is open or
\* left to make, the next step of the resolution is taken
Resolve ==
    /\ VisitRoot \/ VisitCaller \/ VisitReturn
    /\ UNCHANGED <<semVars, genVars, outVars>>

SpecCalls == InitCalls /\ [][NextBlock]_vars /\ WF_vars(Resolve)

InitSem ==
    /\ ir = <<>>
    /\ sem_stack = <<>>
    /\ start_list = {}
    /\ loop_stack = <<>>
    /\ loop_res = <<>>
    /\ errors = FALSE
    /\ current_function = NoFunction
    /\ functions = <<>>
    /\ temp_count = 0
    /\ src \in Sources
    /\ spc = "start"
    /\ BlockIdle
    /\ GenIdle
    /\ OutIdle

NextSem ==
    \/ handle_JFuncStart /\ UNCHANGED <<blockVars, genVars, outVars>>
    \/ handle_FunctionHeaderDeclaration /\ UNCHANGED <<blockVars, genVars, outVars>>
    \/ handle_FunctionDeclaration /\ UNCHANGED <<blockVars, genVars, outVars>>
    \/ handle_Program /\ UNCHANGED <<blockVars, genVars, outVars>>
    \/ Shift /\ UNCHANGED <<blockVars, genVars, outVars>>
    \/ handle_Block /\ UNCHANGED <<blockVars, genVars, outVars>>
    \/ handle_FunctionExpressionBlock /\ UNCHANGED <<blockVars, genVars, outVars>>
    \/ handle_FunctionExpressionString /\ UNCHANGED <<blockVars, genVars, outVars>>
    \/ handle_StatementString /\ UNCHANGED <<blockVars, genVars, outVars>>
    \/ handle_Statement /\ UNCHANGED <<blockVars, genVars, outVars>>
    \/ handle_ReturnStatement /\ UNCHANGED <<blockVars, genVars, outVars>>
    \/ handle_Expression /\ UNCHANGED <<blockVars, genVars, outVars>>
    \/ handle_BackpatchMarker /\ UNCHANGED <<blockVars, genVars, outVars>>
    \/ handle_BranchableExpression /\ UNCHANGED <<blockVars, genVars, outVars>>
    \/ handle_IfExitMarker /\ UNCHANGED <<blockVars, genVars, outVars>>
    \/ handle_ElseExitMarkder /\ UNCHANGED <<blockVars, genVars, outVars>>
    \/ handle_SelectExpression /\ UNCHANGED <<blockVars, genVars, outVars>>
    \/ handle_IfStatement /\ UNCHANGED <<blockVars, genVars, outVars>>
    \/ handle_LoopMarker /\ UNCHANGED <<blockVars, genVars, outVars>>
    \/ handle_LoopExprMarker /\ UNCHANGED <<blockVars, genVars, outVars>>
    \/ handle_ForExpression /\ UNCHANGED <<blockVars, genVars, outVars>>
    \/ handle_WhileStatement /\ UNCHANGED <<blockVars, genVars, outVars>>
    \/ handle_ForStatement /\ UNCHANGED <<blockVars, genVars, outVars>>
    \/ handle_CirculateStatement /\ UNCHANGED <<blockVars, genVars, outVars>>
    \/ handle_LoopStatement /\ UNCHANGED <<blockVars, genVars, outVars>>
    \/ handle_BreakStatement /\ UNCHANGED <<blockVars, genVars, outVars>>
    \/ handle_ContinueStatement /\ UNCHANGED <<blockVars, genVars, outVars>>

SpecSem == InitSem /\ [][NextSem]_vars

InitGen ==
    /\ gen_prog \in OneFunction
    /\ UsePosBuilt
    /\ gen_fn = 0
    /\ valregs \in {[r \in 1..n |-> r] : n \in 1..MaxPool}
    /\ rvalues = <<>>
    /\ usedregs = {}
    /\ frames = <<>>
    /\ code = <<>>
    /\ reg_file = [r \in 1..Len(valregs) |-> 0]
    /\ frame_mem = [o \in {l.offset : l \in Range(build_frame(FuncName, LocalScope, <<>>).local_vars)} |-> 0]
    /\ ideal = <<>>
    /\ written = NoWrite
    /\ gpc = 0
    /\ apc = 0
    /\ last_alloc = NoAlloc
    /\ BlockIdle
    /\ SemIdle
    /\ spc = "idle"
    /\ OutIdle

NextGen ==
    \/ BeginFunction /\ UNCHANGED <<blockVars, semVars, outVars>>
    \/ QuadAssignConst /\ UNCHANGED <<blockVars, semVars, outVars>>
    \/ QuadAssignVar /\ UNCHANGED <<blockVars, semVars, outVars>>
    \/ QuadBinopConsts /\ UNCHANGED <<blockVars, semVars, outVars>>
    \/ QuadBinopVarConst /\ UNCHANGED <<blockVars, semVars, outVars>>
    \/ QuadBinopVars /\ UNCHANGED <<blockVars, semVars, outVars>>
    \/ QuadReturn /\ UNCHANGED <<blockVars, semVars, outVars>>

SpecGen == InitGen /\ [][NextGen]_vars

-----------------------------------------------------------------------------
(* Frames: build_frame on scopes that list parameters and variables in any  *)
(* order; the functions have no quadruples.                                  *)
MaxScope == 3

ScopeNames == {"a", "b", "c"}

\* the listings scope.symbols.values() of at most MaxScope symbols
Scopes ==
    {s \in UNION {[1..n -> [name : ScopeNames, kind : {"param", "var"}]] : n \in 0..MaxScope} :
        \A i, j \in 1..Len(s) : i # j => s[i].name # s[j].name}

InitFrame ==
    /\ gen_prog \in {<<[name |-> "main", scope |-> s1, quads |-> <<>>],
                       [name |-> "f", scope |-> s2, quads |-> <<>>]>> :
                        s1 \in Scopes, s2 \in Scopes}
    /\ UsePosBuilt
    /\ gen_fn = 0
    /\ valregs = <<1>>
    /\ rvalues = <<>>
    /\ usedregs = {}
    /\ frames = <<>>
    /\ code = <<>>
    /\ reg_file = <<0>>
    /\ frame_mem = <<>>
    /\ ideal = <<>>
    /\ written = NoWrite
    /\ gpc = 0
    /\ apc = 0
    /\ last_alloc = NoAlloc
    /\ BlockIdle
    /\ SemIdle
    /\ spc = "idle"
    /\ OutIdle

NextFrame == BeginFunction /\ UNCHANGED <<blockVars, semVars, outVars>>

SpecFrame == InitFrame /\ [][NextFrame]_vars

InitEmit ==
    /\ gen_prog \in TwoFunctions("f") \cup TwoFunctions("p")
    /\ UsePosBuilt
    /\ gen_fn = 0
    /\ valregs \in {[r \in 1..n |-> r] : n \in 1..MaxPool}
    /\ rvalues = <<>>
    /\ usedregs = {}
    /\ frames = <<>>
    /\ code = <<>>
    /\ reg_file = <<>>
    /\ frame_mem = <<>>
    /\ ideal = <<>>
    /\ written = NoWrite
    /\ gpc = 0
    /\ apc = 0
    /\ last_alloc = NoAlloc
    /\ BlockIdle
    /\ SemIdle
    /\ spc = "idle"
    /\ OutIdle

NextEmit ==
    \/ BeginFunction /\ UNCHANGED <<blockVars, semVars, outVars>>
    \/ CallAllocReg /\ UNCHANGED <<blockVars, semVars, outVars>>
    \/ LoadOperand /\ UNCHANGED <<blockVars, semVars, outVars>>
    \/ EmitAssign /\ UNCHANGED <<blockVars, semVars, outVars>>
    \/ QuadCall /\ UNCHANGED <<blockVars, semVars, outVars>>
    \/ QuadReturn /\ UNCHANGED <<blockVars, semVars, outVars>>
    \/ QuadReturnMain /\ UNCHANGED <<blockVars, semVars, outVars>>

SpecEmit == InitEmit /\ [][NextEmit]_vars

InitQuad ==
    /\ gen_prog \in ThreeFunctions
    /\ UsePosBuilt
    /\ gen_fn = 0
    /\ valregs \in {[r \in 1..n |-> r] : n \in 1..MaxPool}
    /\ rvalues = <<>>
    /\ usedregs = {}
    /\ frames = <<>>
    /\ code = <<>>
    /\ reg_file = <<>>
    /\ frame_mem = <<>>
    /\ ideal = <<>>
    /\ written = NoWrite
    /\ gpc = 0
    /\ apc = 0
    /\ last_alloc = NoAlloc
    /\ asm_out = <<>>
    /\ raised = NotRaised
    /\ BlockIdle
    /\ SemIdle
    /\ spc = "idle"

NextQuad ==
    \/ BeginFunctionLabel /\ UNCHANGED <<blockVars, semVars>>
    \/ Translate /\ UNCHANGED <<blockVars, semVars>>

SpecQuad == InitQuad /\ [][NextQuad]_vars

-----------------------------------------------------------------------------
(* Properties of the block split, the CFG, the call order and the live sets  *)

BlocksReady == bpc \in {"dfs", "live", "done"}
CfgReady == bpc \in {"live", "done"}

\* the positions of a slice at which a block of the split starts
RECURSIVE StartsOf(_, _)
StartsOf(blocks, from) ==
    IF blocks = <<>> THEN {}
    ELSE {from} \cup StartsOf(Tail(blocks), from + Len(Head(blocks)))

\* the leader rule as the spec words it
RuleLeaders(qs) ==
    {p \in 1..Len(qs) :
        \/ p = 1
        \/ \E c \in 1..Len(qs) : IsJumpOp(qs[c].q) /\ qs[c].q.result = IntV(qs[p].idx)
        \/ (p > 1 /\ IsJumpOp(qs[p - 1].q))}

\* C3: in every function slice a position starts a block if and only if it
\* is the first instruction, the target of a j/jnz of the slice, or the
\* instruction right after a j/jnz of the slice.
C3_LeaderRule ==
    BlocksReady =>
        \A f \in FuncSet : StartsOf(func_blocks[f], 1) = RuleLeaders(FuncSlice(f))

NextAfter(blocks, i) == IF i < Len(blocks) THEN {blocks[i + 1][1].idx} ELSE {}

JumpTargets(qs) ==
    {qs[c].q.result.n : c \in {c \in 1..Len(qs) : IsJumpOp(qs[c].q) /\ IsInt(qs[c].q.result)}}

\* C5 as stated: the last instruction of every block is a j/jnz, a RETURN,
\* or the final instruction of the function's slice.
C5_TerminatorAsStated ==
    BlocksReady =>
        \A f \in FuncSet : \A i \in 1..Len(func_blocks[f]) :
            \/ LastQuad(func_blocks[f][i]).op \in {"j", "jnz", "RETURN"}
            \/ i = Len(func_blocks[f])

\* C5 (amended): the last instruction of every block is a j/jnz, a RETURN,
\* the final instruction of the function's slice, or the instruction right
\* before the target of a j/jnz of the slice.
C5_Terminator ==
    BlocksReady =>
        \A f \in FuncSet : \A i \in 1..Len(func_blocks[f]) :
            \/ LastQuad(func_blocks[f][i]).op \in {"j", "jnz", "RETURN"}
            \/ i = Len(func_blocks[f])
            \/ NextAfter(func_blocks[f], i) \subseteq JumpTargets(FuncSlice(f))

C5_Witness ==
    /\ BlocksReady
    /\ \E f \in FuncSet : \E i \in 1..(Len(func_blocks[f]) - 1) :
        /\ LastQuad(func_blocks[f][i]).op \notin {"j", "jnz", "RETURN"}
        /\ NextAfter(func_blocks[f], i) \subseteq JumpTargets(FuncSlice(f))

\* C6: the successors of block i with terminator t are {block of T} for
\* `j T`, {block of T, block i+1} for `jnz T`, and otherwise {block i+1} when
\* it exists; a block ending in `j` gets no fall-through edge.
C6_SuccessorRule ==
    CfgReady =>
        \A f \in FuncSet : \A i \in 1..Len(func_blocks[f]) :
            LET blocks == func_blocks[f]
                t == LastQuad(blocks[i])
            IN func_cfgs[f][i] =
                IF t.op = "j" THEN BlocksHolding(blocks, t.result)
                ELSE IF t.op = "jnz"
                     THEN BlocksHolding(blocks, t.result) \cup FallThrough(blocks, i)
                     ELSE FallThrough(blocks, i)

\* C7: every block has at least one successor, except a block that ends with
\* RETURN as the last instruction of the function.
C7_CfgTotal ==
    CfgReady =>
        \A f \in FuncSet : \A i \in 1..Len(func_blocks[f]) :
            \/ func_cfgs[f][i] # {}
            \/ (i = Len(func_blocks[f]) /\ LastQuad(func_blocks[f][i]).op = "RETURN")

PosIn(ord, f) == CHOOSE i \in 1..Len(ord) : ord[i] = f

\* C9 as stated: every callee comes before every function that calls it.
C9_CalleesFirst ==
    CfgReady =>
        \A callee \in FuncSet : \A caller \in call_graph[callee] :
            PosIn(order, callee) < PosIn(order, caller)

\* C9 (amended): in the order of _split_all_functions every caller comes
\* before every function it calls (acyclic call graph); for main calling f,
\* which calls nothing, the order is [main, f].
C9_CallersFirst ==
    CfgReady =>
        /\ \A callee \in FuncSet : \A caller \in call_graph[callee] :
            PosIn(order, caller) < PosIn(order, callee)
        /\ (FuncSet = {"main", "f"} /\ call_graph["f"] = {"main"} /\ call_graph["main"] = {})
            => order = <<"main", "f">>

C9_Witness ==
    /\ CfgReady
    /\ FuncSet = {"main", "f"}
    /\ call_graph["f"] = {"main"}
    /\ call_graph["main"] = {}
    /\ order = <<"main", "f">>

\* C10: the IN/OUT sets returned by _live_variable_analysis are a fixed
\* point: OUT[i] is the union of IN over the successors of i, IN[i] is
\* used[i] with OUT[i] minus defined[i], one more sweep changes nothing, and
\* a block without successors has OUT empty.
C10_LiveFixedPoint ==
    \A k \in 1..Len(order) :
        (bpc = "done" \/ (bpc = "live" /\ k < live_k)) =>
            LET f == order[k]
                blocks == func_blocks[f]
                used == UsedVars(blocks, func_vars[f])
                defined == DefinedVars(blocks, func_vars[f])
                again == Sweep(Len(blocks), in_sets[f], out_sets[f], func_cfgs[f],
                               used, defined, FALSE)
            IN /\ \A i \in 1..Len(blocks) :
                    /\ out_sets[f][i] = UNION {in_sets[f][s] : s \in func_cfgs[f][i]}
                    /\ in_sets[f][i] = used[i] \cup (out_sets[f][i] \ defined[i])
                    /\ func_cfgs[f][i] = {} => out_sets[f][i] = {}
               /\ again.ins = in_sets[f]
               /\ again.outs = out_sets[f]

C10_Witness ==
    /\ bpc = "done"
    /\ \E f \in FuncSet : \E i \in 1..Len(func_blocks[f]) :
        /\ out_sets[f][i] # {}
        /\ \E s \in func_cfgs[f][i] : s <= i

-----------------------------------------------------------------------------
(* C2  Backpatch completeness: when the translation of an error-free program *)
(* has finished (after _handle_Program), no j or jnz quadruple has None as   *)
(* its jump target.                                                          *)
C2_BackpatchComplete ==
    (spc = "done" /\ ~errors) =>
        \A p \in 1..Len(ir) : ir[p].op \in {"j", "jnz"} => ir[p].result # NoneV

-----------------------------------------------------------------------------
(* C1  Register allocator soundness: while the emitted instructions run, at  *)
(* every quadruple each register bound to a variable holds the value most    *)
(* recently assigned to that variable, and the value a quadruple writes is   *)
(* the one it computes from the most recent values of its operands (so a     *)
(* spilled variable is read back with its value, and a variable redefined    *)
(* after a spill with the redefined one).                                    *)
C1_AllocatorSound ==
    /\ \A i \in 1..Len(rvalues) :
          rvalues[i].var \in DOMAIN ideal =>
              reg_file[rvalues[i].reg] = ideal[rvalues[i].var]
    /\ written.var \in DOMAIN ideal => written.value = ideal[written.var]

-----------------------------------------------------------------------------
(* C11  Live sets are restricted: for every function and block, IN and OUT   *)
(* hold only names of the function's own parameters and locals (valid_vars); *)
(* $ret_reg, function names and names of other functions' variables are in   *)
(* no IN or OUT set.                                                         *)
C11_LiveRestricted ==
    CfgReady =>
        \A f \in FuncSet : \A i \in 1..Len(func_blocks[f]) :
            /\ in_sets[f][i] \cup out_sets[f][i] \subseteq func_vars[f]
            /\ (in_sets[f][i] \cup out_sets[f][i]) \cap ({RetReg} \cup FuncSet) = {}

\* the analysis is over; a function whose quadruples read a name that is not
\* in its scope has a block with a live variable
C11_Witness ==
    /\ bpc = "done"
    /\ \E f \in FuncSet :
        /\ \E i \in 1..Len(func_blocks[f]) : \E p \in 1..Len(func_blocks[f][i]) :
              LET q == func_blocks[f][i][p].q
              IN \E o \in {q.arg1, q.arg2} : IsStr(o) /\ o.s \notin func_vars[f]
        /\ \E i \in 1..Len(func_blocks[f]) : in_sets[f][i] # {}

-----------------------------------------------------------------------------
\* the offsets of the parameter and local slots of a frame, slot by slot
SlotOffsets(frame) ==
    [i \in 1..Len(frame.params) |-> frame.params[i].offset]
        \o [j \in 1..Len(frame.local_vars) |-> frame.local_vars[j].offset]

(* C12  Frame offset disjointness: in every frame build_frame has built,     *)
(* whatever the order of the parameters and variables in the scope listing,  *)
(* no two parameter or local slots have the same offset.                     *)
C12_OffsetsDisjoint ==
    \A k \in 1..Len(frames) :
        \A i, j \in 1..Len(SlotOffsets(frames[k])) :
            i # j => SlotOffsets(frames[k])[i] # SlotOffsets(frames[k])[j]

-----------------------------------------------------------------------------
(* C13  Frame layout arithmetic: in every frame built, with P parameters and *)
(* L locals, the k-th parameter has offset -4*(k+1)-4, the m-th local has    *)
(* offset -4*(P+1)-4*(m+1)-4 with P the total parameter count, every offset  *)
(* is negative and a multiple of 4, size() = 4 + 4*(P+1) + 4*(L+1) + 8 and   *)
(* every slot offset o satisfies -size() < o.                                *)
C13_FrameLayout ==
    \A n \in 1..Len(frames) :
        LET frame == frames[n]
            P == Len(frame.params)
            L == Len(frame.local_vars)
        IN  /\ frame.param_num = P /\ frame.local_num = L
            /\ \A k \in 1..P : frame.params[k].offset = -4 * (k + 1) - 4
            /\ \A m \in 1..L :
                  frame.local_vars[m].offset = -4 * (P + 1) - 4 * (m + 1) - 4
            /\ \A i \in 1..Len(SlotOffsets(frame)) :
                  LET o == SlotOffsets(frame)[i]
                  IN  o < 0 /\ o % 4 = 0 /\ -size(frame) < o
            /\ size(frame) = 4 + 4 * (P + 1) + 4 * (L + 1) + 8

-----------------------------------------------------------------------------
\* the recorded uses of the name of binding b at or behind position pos
UsesAtOrAfter(b, pos) == {p \in Range(UsesOf(b.var)) : PosLeq(pos, p)}

\* the nearest of them
NearestUse(b, pos) ==
    CHOOSE p \in UsesAtOrAfter(b, pos) : \A u \in UsesAtOrAfter(b, pos) : PosLeq(p, u)

(* C14  Victim selection: when alloc_reg is called for an unbound variable   *)
(* and no pool register is free, the binding it evicts has no recorded use   *)
(* at or behind the current position if there is such a binding; otherwise   *)
(* its nearest use at or behind the current position is the furthest among   *)
(* all bindings.                                                             *)
C14_VictimRule ==
    [][(AtStep("alloc") /\ last_alloc'.evicted # {}) =>
          \A e \in last_alloc'.evicted :
              IF \E b \in Range(rvalues) : UsesAtOrAfter(b, cur_pos) = {}
              THEN UsesAtOrAfter(e, cur_pos) = {}
              ELSE \A b \in Range(rvalues) :
                      PosLeq(NearestUse(b, cur_pos), NearestUse(e, cur_pos))]_vars

-----------------------------------------------------------------------------
\* binding b of the function at pos has a recorded use in that function
\* strictly behind pos
LiveBinding(b, pos) ==
    /\ b.func = pos.f
    /\ \E p \in Range(UsesOf(b.var)) : p.f = pos.f /\ PosLess(pos, p)

(* C15  Spill rule: when alloc_reg evicts a binding, it appends a store of   *)
(* the victim's register (and marks the victim's slot in_memory) if and only *)
(* if the victim belongs to the function of the request and is live after    *)
(* the current position, whether the victim is a local, a parameter or a     *)
(* temporary; for a victim of another function or without a further use      *)
(* nothing is stored and no flag changes.                                    *)
C15_SpillRule ==
    [][(AtStep("alloc") /\ last_alloc'.evicted # {}) =>
          \A e \in last_alloc'.evicted :
              IF LiveBinding(e, cur_pos)
              THEN /\ Len(last_alloc'.stored) = 1
                   /\ last_alloc'.stored[1].ins = "sw"
                   /\ last_alloc'.stored[1].rs = e.reg
                   /\ \A k \in 1..Len(LocalVarsOf(frames, e.func)) :
                         LocalVarsOf(frames, e.func)[k].name = e.var =>
                             LocalVarsOf(frames', e.func)[k].in_memory
              ELSE last_alloc'.stored = <<>> /\ frames' = frames]_vars

-----------------------------------------------------------------------------
(* C16  alloc_reg on a (function, variable) pair that is bound returns the   *)
(* pair's register and changes nothing: the binding table, the occupied      *)
(* registers, the in_memory flags of every frame and the code list stay as   *)
(* they are.                                                                 *)
C16_BoundNoEffect ==
    [][(/\ AtStep("alloc")
        /\ \E b \in Range(rvalues) :
              b.func = cur_pos.f /\ b.var = Steps(gen_quads[gpc + 1])[apc + 1].v)
       => /\ rvalues' = rvalues
          /\ usedregs' = usedregs
          /\ frames' = frames
          /\ code' = McNow.code]_vars

\* alloc_reg has just been called for a bound pair while every pool register
\* was occupied
C16_Witness ==
    /\ last_alloc.bound
    /\ apc >= 1
    /\ usedregs = Range(valregs)
    /\ Len(rvalues) >= 2

-----------------------------------------------------------------------------
\* the slots of all frames: <<frame number, slot number>>
MemSlots(fs) == {s \in (1..Len(fs)) \X (1..MaxScope) : s[2] <= Len(fs[s[1]].local_vars)}

(* C17  in_memory is monotone: in every step of the emission a slot whose    *)
(* in_memory flag is true keeps it, and a flag becomes true only in a step   *)
(* that appends the store of that variable to its slot.                      *)
C17_InMemoryMonotone ==
    [][\A s \in MemSlots(frames) :
          LET old == frames[s[1]].local_vars[s[2]]
              new == frames'[s[1]].local_vars[s[2]]
          IN  /\ old.in_memory => new.in_memory
              /\ (~old.in_memory /\ new.in_memory) =>
                    /\ Len(code') = Len(McNow.code) + 1
                    /\ code'[Len(code')].ins = "sw"
                    /\ code'[Len(code')].imm = old.offset
                    /\ \E b \in Range(rvalues) :
                          /\ b.func = frames[s[1]].name /\ b.var = old.name
                          /\ b.reg = code'[Len(code')].rs]_vars

\* a variable has been spilled and its slot is marked
C17_Witness ==
    /\ last_alloc.stored # <<>>
    /\ \E s \in MemSlots(frames) : frames[s[1]].local_vars[s[2]].in_memory
    /\ gen_fn = 2

-----------------------------------------------------------------------------
\* the names the quadruple q mentions
NamesOf(q) == {o.s : o \in {o \in {q.arg1, q.arg2, q.result} : IsStr(o)}}

(* C18  get_live_vars_after(position) returns exactly the variables v other  *)
(* than $ret_reg such that (function of position, v) is bound to a register  *)
(* and some quadruple of that function strictly behind position mentions v;  *)
(* checked for every position of the function being emitted.                 *)
C18_LiveVarsExact ==
    gen_fn >= 1 =>
        \A n \in 1..Len(gen_quads) :
            LET live_vars == get_live_vars_after(rvalues, Pos(gen_prog[gen_fn].name, n - 1))
            IN  /\ Range(live_vars) =
                      {b.var : b \in {b \in Range(rvalues) :
                          /\ b.func = gen_prog[gen_fn].name
                          /\ b.var # RetReg
                          /\ \E k \in (n + 1)..Len(gen_quads) : b.var \in NamesOf(gen_quads[k])}}
                /\ \A i, j \in 1..Len(live_vars) : i # j => live_vars[i] # live_vars[j]

\* a call has been emitted with a store of a live variable while another
\* variable of the function was bound and not live
C18_Witness ==
    /\ gen_fn >= 1 /\ gpc >= 1 /\ apc = 0
    /\ gen_quads[gpc].op = "call"
    /\ code # <<>> /\ code[1].ins = "sw" /\ code[1].rs # spreg
    /\ \E b \in Range(rvalues) :
          /\ b.func = gen_prog[gen_fn].name
          /\ b.var \notin Range(get_live_vars_after(rvalues, Pos(b.func, gpc - 1)))

-----------------------------------------------------------------------------
\* the code list is that of a call quadruple just emitted
CallEmitted == gen_fn >= 1 /\ gpc >= 1 /\ apc = 0 /\ gen_quads[gpc].op = "call"

\* positions in the code list, by kind of line
LinesWhere(Is(_)) == {i \in 1..Len(code) : Is(code[i])}
IsStore(l) == l.ins = "sw" /\ l.rs \in Range(valregs)
IsReload(l) == l.ins = "lw" /\ l.rd \in Range(valregs)
IsSpDown(l) == l.ins = "addi" /\ l.rd = spreg /\ l.imm < 0
IsSpUp(l) == l.ins = "addi" /\ l.rd = spreg /\ l.imm > 0
IsRaSave(l) == l.ins = "sw" /\ l.rs = rareg
IsRaRestore(l) == l.ins = "lw" /\ l.rd = rareg
IsJal(l) == l.ins = "jal"

AllBefore(A, B) == \A i \in A : \A j \in B : i < j

\* what the order of the restores leaves untouched: one line of each kind,
\* the stores ahead of the decrement, the return address saved after it and
\* ahead of the jal, the stores being those of the live locals of the caller,
\* the reloads those of the same slots, the increment equal to the decrement
CallFrameRules ==
    LET one == {LinesWhere(IsSpDown), LinesWhere(IsRaSave), LinesWhere(IsJal),
                LinesWhere(IsSpUp), LinesWhere(IsRaRestore)}
        caller == gen_prog[gen_fn].name
        local_vars == LocalVarsOf(frames, caller)
        live == Range(get_live_vars_after(rvalues, Pos(caller, gpc - 1)))
    IN  /\ \A S \in one : Cardinality(S) = 1
        /\ AllBefore(LinesWhere(IsStore), LinesWhere(IsSpDown))
        /\ AllBefore(LinesWhere(IsSpDown), LinesWhere(IsRaSave))
        /\ AllBefore(LinesWhere(IsRaSave), LinesWhere(IsJal))
        /\ {<<code[i].rs, code[i].imm>> : i \in LinesWhere(IsStore)} =
              {<<b.reg, get_var_offset(local_vars, b.var)>> :
                  b \in {b \in Range(rvalues) :
                            /\ b.func = caller /\ b.var \in live
                            /\ \E k \in 1..Len(local_vars) : local_vars[k].name = b.var}}
        /\ {<<code[i].rd, code[i].imm>> : i \in LinesWhere(IsReload)} =
              {<<code[i].rs, code[i].imm>> : i \in LinesWhere(IsStore)}
        /\ Cardinality(LinesWhere(IsReload)) = Cardinality(LinesWhere(IsStore))
        /\ \A i \in LinesWhere(IsSpDown) : \A j \in LinesWhere(IsSpUp) :
              code[j].imm = -code[i].imm

(* C19  Call sequence ordering, as stated: the lines of a call quadruple are *)
(* the stores of the live caller locals, the stack-pointer decrement, the    *)
(* return-address save, the jal, then the stack-pointer restore, then the    *)
(* return-address restore, then the reloads; the variables reloaded are the  *)
(* ones stored and the increment equals the decrement.                       *)
C19_CallOrderAsStated ==
    CallEmitted =>
        /\ CallFrameRules
        /\ AllBefore(LinesWhere(IsJal), LinesWhere(IsSpUp))
        /\ AllBefore(LinesWhere(IsSpUp), LinesWhere(IsRaRestore))
        /\ AllBefore(LinesWhere(IsRaRestore), LinesWhere(IsReload))

(* C19  amended: after the jal the return address is restored first, from    *)
(* the slot it was saved to below the decremented stack pointer, then the    *)
(* stack pointer, then the reloads; everything else as stated.               *)
C19_CallOrder ==
    CallEmitted =>
        /\ CallFrameRules
        /\ AllBefore(LinesWhere(IsJal), LinesWhere(IsRaRestore))
        /\ AllBefore(LinesWhere(IsRaRestore), LinesWhere(IsSpUp))
        /\ AllBefore(LinesWhere(IsSpUp), LinesWhere(IsReload))
        /\ \A i \in LinesWhere(IsRaSave) : \A j \in LinesWhere(IsRaRestore) :
              code[i].imm = code[j].imm

\* a call emitted while two locals of the caller were live
C19_Witness ==
    /\ CallEmitted
    /\ Cardinality(LinesWhere(IsStore)) >= 2
    /\ Cardinality(LinesWhere(IsReload)) >= 2

-----------------------------------------------------------------------------
\* the function called by the call quadruple just emitted
CalleeName == gen_quads[gpc].arg1.s

(* C20  as stated: at every call of f the stack pointer is decremented by    *)
(* the frame size of the callee f, and f's frame has been built when the     *)
(* call sequence is emitted.                                                 *)
C20_CalleeFrameAsStated ==
    CallEmitted =>
        /\ FramesOf(frames, CalleeName) # {}
        /\ \A i \in LinesWhere(IsSpDown) :
              -code[i].imm = size(frames[Min(FramesOf(frames, CalleeName))])

(* C20  amended: at every call the stack pointer is decremented by the frame *)
(* size of the caller, the function that holds the call, whose frame was     *)
(* built when its emission began; the frame of a callee that is emitted      *)
(* after its caller has not been built yet.                                  *)
C20_CallerFrame ==
    CallEmitted =>
        LET caller == gen_prog[gen_fn].name
        IN  /\ FramesOf(frames, caller) # {}
            /\ \A i \in LinesWhere(IsSpDown) :
                  -code[i].imm = size(frames[Min(FramesOf(frames, caller))])
            /\ (\E k \in (gen_fn + 1)..Len(gen_prog) : gen_prog[k].name = CalleeName)
                  => FramesOf(frames, CalleeName) = {}

\* a call has been emitted whose callee has a frame of another size than the
\* caller's
C20_Witness ==
    /\ CallEmitted
    /\ \E k \in 1..Len(gen_prog) :
          /\ gen_prog[k].name = CalleeName
          /\ size(build_frame(CalleeName, gen_prog[k].scope, frames))
                # size(frames[Min(FramesOf(frames, gen_prog[gen_fn].name))])
    /\ LinesWhere(IsSpDown) # {}

-----------------------------------------------------------------------------
(* Properties of the param, jump and division quadruples and of the errors   *)

\* every call quadruple with n arguments stands behind the param quadruples
\* of its arguments 1..n, and every param quadruple belongs to such a run
WellFormedCalls(prog) ==
    \A f \in 1..Len(prog) : \A p \in 1..Len(prog[f].quads) :
        LET qs == prog[f].quads
        IN  /\ qs[p].op = "call" =>
                \A i \in 1..qs[p].arg2.n :
                    /\ p - qs[p].arg2.n + i - 1 >= 1
                    /\ qs[p - qs[p].arg2.n + i - 1].op = "param"
                    /\ qs[p - qs[p].arg2.n + i - 1].result = ParamResult(i)
            /\ qs[p].op = "param" =>
                \E c \in p + 1..Len(qs) :
                    /\ qs[c].op = "call"
                    /\ c - qs[c].arg2.n <= p
                    /\ \A m \in p..c - 1 : qs[m].op = "param"

\* some call of g passes an i-th argument
CalledWith(prog, g, i) ==
    \E f \in 1..Len(prog) : \E p \in 1..Len(prog[f].quads) :
        /\ prog[f].quads[p].op = "call"
        /\ prog[f].quads[p].arg1.s = g
        /\ prog[f].quads[p].arg2.n >= i

PrologueDone == gen_fn >= 1 /\ gpc = 0 /\ raised = NotRaised

\* C21: when the prologue of a function g has run (its frame is built, its
\* parameter keys are renamed and no quadruple of g is translated yet), then
\* for every i such that some call passes g an i-th argument, the pair
\* (g, name of the i-th parameter) is bound to the i-th argument register.
C21_ParamRebased ==
    (PrologueDone /\ WellFormedCalls(gen_prog)) =>
        LET g == gen_prog[gen_fn].name
            params == frames[Min(FramesOf(frames, g))].params
        IN  \A i \in 1..Len(params) :
                CalledWith(gen_prog, g, i) =>
                    /\ Bound(rvalues, g, params[i].name)
                    /\ RegOf(rvalues, g, params[i].name) = pararegs[i]

\* a quadruple has been handed to quad_to_code in the function being emitted
Handled == gen_fn >= 1 /\ (raised # NotRaised \/ gpc >= 1)

\* the quadruple quad_to_code was given last: the one it raised on, else the
\* one before gpc
HandledQuad == IF raised # NotRaised THEN gen_quads[gpc + 1] ELSE gen_quads[gpc]

\* C22: a param quadruple whose result names the index k (the number written
\* in it, or no digits at all) and whose argument is a name or a constant:
\* for k outside 1..4 quad_to_code raises an error that carries an error
\* code and returns no instruction; for k in 1..4 it raises nothing and its
\* last instruction moves the argument into the k-th argument register.
C22_ParamValidated ==
    (/\ Handled
     /\ HandledQuad.op = "param"
     /\ IsStr(HandledQuad.result)
     /\ IsStr(HandledQuad.arg1) \/ IsInt(HandledQuad.arg1)) =>
        LET k == HandledQuad.result.n
        IN  IF k \in 1..4
            THEN /\ raised = NotRaised
                 /\ code # <<>>
                 /\ code[Len(code)].ins \in {"add", "li"}
                 /\ code[Len(code)].rd = pararegs[k]
            ELSE /\ raised.kind # "none"
                 /\ raised.error_code # 0
                 /\ code = <<>>

\* the blocks that hold stream index idx: pairs <<function number, block index>>
BlocksOfIndex(idx) ==
    {fb \in (1..Len(gen_prog)) \X (0..MaxUnit) :
        /\ fb[2] < Len(BlockSplit(SliceIn(gen_prog, fb[1])))
        /\ \E e \in Range(BlockSplit(SliceIn(gen_prog, fb[1]))[fb[2] + 1]) : e.idx = idx}

\* C23: for a j or jnz quadruple whose target is None or an index that no
\* block of any function holds, quad_to_code raises and returns no line;
\* when a block holds the target, nothing is raised and the last line
\* returned is the branch (j, or bne for jnz) to the label of that block of
\* that function.
C23_JumpResolved ==
    (Handled /\ HandledQuad.op \in {"j", "jnz"}) =>
        LET t == HandledQuad.result
        IN  IF IsInt(t) /\ BlocksOfIndex(t.n) # {}
            THEN /\ raised = NotRaised
                 /\ code # <<>>
                 /\ code[Len(code)].ins = (IF HandledQuad.op = "j" THEN "j" ELSE "bne")
                 /\ <<code[Len(code)].imm, code[Len(code)].rt>> \in BlocksOfIndex(t.n)
                 /\ Cardinality(BlocksOfIndex(t.n)) = 1
            ELSE /\ raised # NotRaised
                 /\ code = <<>>

\* a jnz has raised on a target past the end of the stream, after a j of the
\* same function was rendered to the label of a later block
C23_Witness ==
    /\ raised.kind = "ValueError"
    /\ gpc >= 1
    /\ gen_quads[gpc].op = "j"
    /\ gen_quads[gpc + 1].op = "jnz"
    /\ gen_quads[gpc + 1].result = IntV(PastEnd)
    /\ \E l \in Range(asm_out) : l.ins = "j" /\ l.rt >= 1

\* C24: a `/` quadruple whose divisor is the constant 0 and whose dividend
\* is a constant or a variable makes quad_to_code raise; no instruction is
\* returned.
C24_DivisionByZero ==
    (/\ Handled
     /\ HandledQuad.op = "/"
     /\ HandledQuad.arg2 = IntV(0)
     /\ IsInt(HandledQuad.arg1) \/ IsStr(HandledQuad.arg1)) =>
        /\ raised.kind = "ValueError"
        /\ code = <<>>

\* the division of an assigned variable by 0 has raised
C24_Witness ==
    /\ raised # NotRaised
    /\ gen_quads[gpc + 1].op = "/"
    /\ gen_quads[gpc + 1].arg2 = IntV(0)
    /\ IsStr(gen_quads[gpc + 1].arg1)
    /\ Bound(rvalues, "main", gen_quads[gpc + 1].arg1.s)
    /\ gpc >= 1

\* the in_memory flags of the frames built so far
MemFlags(fs) == [k \in 1..Len(fs) |-> [j \in 1..Len(fs[k].local_vars) |-> fs[k].local_vars[j].in_memory]]

\* C25: a step in which quad_to_code raises, and every step after it, adds
\* no line to the output; the raising step leaves the binding table and the
\* in_memory flags of the frames as they were.
C25_NoPartialOutput ==
    [][raised' # NotRaised =>
        /\ asm_out' = asm_out
        /\ rvalues' = rvalues
        /\ MemFlags(frames') = MemFlags(frames)]_vars

\* the operators of the quadruples the translation emits
DataOps == {"=", "[]=", "=[]", "+", "-", "/", "j", "jnz", "param", "call", "RETURN"}

\* C30: for every quadruple of a data-model operator, quad_to_code raises or
\* returns at least one instruction line.
C30_NoSilentDrop ==
    (Handled /\ HandledQuad.op \in DataOps) => (raised # NotRaised \/ code # <<>>)

\* the bindings a param quadruple left for a prologue, and the bindings of
\* parameters a prologue renamed
Pending(b) == b.func \in Range([i \in 1..4 |-> ParamKey(i)])
Renamed(b) ==
    \E k \in 1..Len(frames) :
        frames[k].name = b.func /\ \E p \in Range(frames[k].params) : p.name = b.var

\* the state part of the pool discipline
PoolKept(rv, used) ==
    /\ \A b \in Range(rv) : (~Pending(b) /\ ~Renamed(b)) => b.reg \in Range(valregs)
    /\ used \subseteq Range(valregs)
    /\ used = {b.reg : b \in Range(rv)} \cap Range(valregs)
    /\ \A i, j \in 1..Len(rv) :
            (i # j /\ rv[i].reg = rv[j].reg) => rv[i].reg \notin Range(valregs)

\* C29: after every step of the emission the bindings made by alloc_reg hold
\* pool registers, usedregs holds pool registers only and exactly the pool
\* registers bound in the table, no two bindings share a pool register; and
\* within a function a pending (paramK, value) binding is never removed
\* from the table.
C29_PoolDiscipline ==
    [][/\ PoolKept(rvalues', usedregs')
       /\ gen_fn' = gen_fn =>
            \A b \in Range(rvalues) :
                Pending(b) => \E c \in Range(rvalues') : c.func = b.func /\ c.var = b.var]_vars

-----------------------------------------------------------------------------
(* C27  Mixed-operand arithmetic: after the instructions of a quadruple      *)
(* (op, a, b, r) with one name and one constant operand have run, r's        *)
(* register holds a op b on the values before the quadruple, whatever r is   *)
(* (the operand name included) and in both operand orders.                   *)
MixedDone ==
    /\ gen_fn >= 1 /\ gpc >= 1
    /\ gen_quads[gpc].op \in BinOps
    /\ IsStr(gen_quads[gpc].arg1) # IsStr(gen_quads[gpc].arg2)

C27_MixedOperand == MixedDone => written.value = ideal[written.var]

-----------------------------------------------------------------------------
(* The call-order resolution on call graphs with cycles                      *)

\* line 203 is reached: no call of visit is open and none is left to make
OrderResolved == bpc # "split" /\ dfs_stack = <<>> /\ FuncSet \ visited = {}

ExactlyOnce(ord, fs) == Len(ord) = Cardinality(fs) /\ Range(ord) = fs

\* C28: on every call graph, self recursion and mutual recursion included,
\* the calls of visit never nest deeper than the number of functions, the
\* resolution reaches its end, and the order it ends with holds every
\* function of the entry table exactly once.
C28_CallOrderTerminates ==
    /\ [](Len(dfs_stack) <= Cardinality(FuncSet))
    /\ (bpc = "dfs") ~> OrderResolved
    /\ [](OrderResolved => ExactlyOnce(order, FuncSet))

C28_Witness ==
    /\ OrderResolved
    /\ ExactlyOnce(order, FuncSet)
    /\ FuncSet = FuncNames
    /\ "main" \in call_graph["main"]
    /\ "f" \in call_graph["g"] /\ "g" \in call_graph["f"]

-----------------------------------------------------------------------------
(* The jumps of a loop when the loop is closed                               *)

LoopKinds == {"WhileStatement", "ForStatement", "LoopStatement"}

\* the step is _handle_WhileStatement, _handle_ForStatement or
\* _handle_LoopStatement
LoopCloses ==
    /\ sem_stack' # <<>>
    /\ sem_stack'[Len(sem_stack')].sym \in LoopKinds
    /\ Len(ir') = Len(ir) + 1

\* the index of the first quadruple of the loop being closed (next_quad at
\* its LoopMarker) and of its header: the for loop sets its iterator first
LoopFirst == loop_stack[Len(loop_stack)]
LoopHeader ==
    IF sem_stack'[Len(sem_stack')].sym = "ForStatement" THEN LoopFirst + 1 ELSE LoopFirst

\* quadruple idx lies in a loop closed earlier: between the target and the
\* place of a jump back
InInnerLoop(idx) ==
    \E p \in 1..Len(ir) :
        /\ ir[p].op = "j" /\ IsInt(ir[p].result)
        /\ ir[p].result.n <= idx /\ idx <= p - 1

\* C26: when a while, for or loop is closed a trailing j to its header is
\* emitted; every jump of the loop itself (not of a loop inside it) that was
\* unresolved is then either patched (next_list and continue sites to the
\* header, the condition's true exit to the body) or still unresolved and an
\* exit of this loop (its next_list: the break sites and the condition's
\* false exit); and the exits are unresolved jumps of the loop itself.
C26_LoopBackpatch ==
    [][LoopCloses =>
        LET node == sem_stack'[Len(sem_stack')]
            own == {idx \in LoopFirst..(Len(ir) - 1) :
                        /\ ir[idx + 1].op \in {"j", "jnz"}
                        /\ ir[idx + 1].result = NoneV
                        /\ ~InInnerLoop(idx)}
        IN  /\ ir'[Len(ir')] = JQuad(IntV(LoopHeader))
            /\ \A idx \in own :
                \/ ir'[idx + 1].result = IntV(LoopHeader)
                \/ ir[idx + 1].op = "jnz" /\ ir'[idx + 1].result # NoneV
                \/ ir'[idx + 1].result = NoneV /\ idx \in node.next_list
            /\ node.next_list \subseteq {idx \in own : ir'[idx + 1].result = NoneV}]_vars

====
